---- MODULE Spec2Model ----
(***************************************************************************)
(* HoskSaid: transcript ingestion (src/scripts/ingest.ts), enrichment      *)
(* (the enrichVideos script), embedding (generateEmbeddings) and hybrid     *)
(* retrieval (src/lib/search-server.ts) against the relational store       *)
(* declared in supabase/migrations/optimize_search.sql.                    *)
(*                                                                         *)
(* Every `await` on the store is one atomic step of a run; calls to the    *)
(* external providers and the append-only log inserts that surround them   *)
(* touch no shared row, so they are folded into the step of the store      *)
(* operation (or provider call) they accompany.                            *)
(***************************************************************************)
EXTENDS Integers, Sequences, FiniteSets, TLC

VARIABLES
    videos,          \* videos table: youtube_id -> status ("absent" = no row)
    transcripts,     \* transcripts table: sequence of rows, insertion order
    tags,            \* tags table: sequence of rows [id, name]
    video_tags,      \* video_tags table: number of rows per <<video_id, tag_id>>
    ingestion_logs,  \* ingestion_logs table: rows [video_id, step, status] (id, created_at dropped)
    pc,              \* position of each ingestVideo run
    run,             \* locals of each ingestVideo run
    runsStarted,     \* number of ingestVideo / enrichVideos invocations so far
    epc,             \* position of the enrichVideos script
    erun,            \* locals of the enrichVideos script
    spc,             \* position of the hybridSearch call
    srun,            \* locals of the hybridSearch call
    transcript_chunks, \* transcript_chunks table: rows [video_id, text, start, end]
    gpc,             \* position of the generateEmbeddings script
    grun,            \* locals of the generateEmbeddings script
    splitPc,         \* position of the splitText call
    splitRun,        \* locals of the splitText call
    cleanPc,         \* position of the cleanTranscriptText calls
    cleanRun,        \* input, options and results of the cleanTranscriptText calls
    wpc,             \* position of the transcribeWithWhisper call
    wrun,            \* locals of the transcribeWithWhisper call
    files,           \* audio files in os.tmpdir(): records [video, ext, mb]
    bpc,             \* position of the channel batch run (CLI or cron)
    brun,            \* locals of the channel batch run
    catalog,         \* videos.status of the channel's uploads
    published,       \* number of uploads the channel has published
    kpc,             \* position of a client paging through GET /api/search
    krun,            \* the paged query: store matches, limit, offset, pages received
    lpc,             \* position of a cleanTranscript call
    lrun,            \* locals of the cleanTranscript call
    opc,             \* position of a second, overlapping run of the embedding script
    orun             \* locals of the second embedding run

storeVars == <<videos, transcripts, tags, video_tags, ingestion_logs>>
ingestVars == <<pc, run>>
enrichVars == <<epc, erun>>
searchVars == <<spc, srun>>
embedVars == <<transcript_chunks, gpc, grun>>
splitVars == <<splitPc, splitRun>>
cleanVars == <<cleanPc, cleanRun>>
whisperVars == <<wpc, wrun, files>>
pageVars == <<kpc, krun>>
llmVars == <<lpc, lrun>>
overlapVars == <<opc, orun>>
libVars == <<splitVars, cleanVars, whisperVars, pageVars, llmVars, overlapVars>>
batchVars == <<bpc, brun, catalog, published>>
vars == <<videos, transcripts, tags, video_tags, ingestion_logs, pc, run, runsStarted,
          epc, erun, spc, srun, transcript_chunks, gpc, grun,
          splitPc, splitRun, cleanPc, cleanRun, wpc, wrun, files,
          bpc, brun, catalog, published, kpc, krun,
          lpc, lrun, opc, orun>>

(***************************************************************************)
(* Bounds                                                                  *)
(***************************************************************************)
MaxRuns == 2                 \* script invocations explored (ingestVideo calls, enrichVideos runs)
VideoIds == {"v1", "v2"}     \* youtube ids known upstream
Procs == {"A", "B"}          \* ingestion runs that may overlap (CLI script, cron)

(***************************************************************************)
(* Values                                                                  *)
(***************************************************************************)
NULL == "NULL"
NoResult == [text |-> "", source |-> "none"]      \* fetchTranscript / whisper returned null

\* text the caption provider resp. the speech-to-text provider yields
CaptionText == "captions text"
WhisperText == "whisper text"

\* items of the `tags` array parsed from the tagging response
Str(s) == [type |-> "string", value |-> s]
Num(s) == [type |-> "number", value |-> s]
TagLists == { <<>>, <<Str("Cardano")>>, <<Str("cardano"), Str("DeFi")>>, <<Num("7")>> }

\* String.prototype.toLowerCase over the tag names of the model
toLowerCase(s) ==
    CASE s = "Cardano" -> "cardano"
      [] s = "DeFi" -> "defi"
      [] OTHER -> s

(***************************************************************************)
(* The store (supabase/migrations/optimize_search.sql) as seen through the *)
(* PostgREST client.                                                       *)
(* A failed request is returned as {error}, never thrown.                  *)
(***************************************************************************)
Statuses == {"pending", "processing", "completed", "failed"}

Rows(table) == {table[i] : i \in 1..Len(table)}

TranscriptOf(v) == {r \in Rows(transcripts) : r.video_id = v}

\* videos.insert(...): youtube_id is UNIQUE, a second row for it is rejected
VideosInsert(tbl, v, status) ==
    IF tbl[v] # "absent"
    THEN [error |-> TRUE, rows |-> tbl]
    ELSE [error |-> FALSE, rows |-> [tbl EXCEPT ![v] = status]]

\* videos.update({status}).eq('id', videoDbId): unconditional on the current status
VideosUpdate(tbl, v, status) ==
    IF tbl[v] = "absent" THEN tbl ELSE [tbl EXCEPT ![v] = status]

\* transcripts.upsert(payload) with no onConflict: the conflict target is the primary
\* key `id`, which the payload does not carry, so the row gets a fresh id and is
\* inserted; UNIQUE(video_id) rejects it when the video already has a row.
TranscriptsUpsert(tbl, payload) ==
    IF \E i \in 1..Len(tbl) : tbl[i].video_id = payload.video_id
    THEN [error |-> TRUE, rows |-> tbl]
    ELSE [error |-> FALSE, rows |-> Append(tbl, payload)]

\* mutant: the tag is written with the primary key as conflict target, as the
\* transcript is: an existing name is rejected by UNIQUE(name)
TagsUpsert_NoOnConflict(tbl, name) ==
    IF \E i \in 1..Len(tbl) : tbl[i].name = name
    THEN [error |-> TRUE, rows |-> tbl, tag |-> [id |-> 0, name |-> name]]
    ELSE LET row == [id |-> Len(tbl) + 1, name |-> name]
         IN  [error |-> FALSE, rows |-> Append(tbl, row), tag |-> row]

\* tags.upsert({name}, {onConflict: 'name'}).select().single()
TagsUpsert(tbl, name) ==
    IF \E i \in 1..Len(tbl) : tbl[i].name = name
    THEN LET i == CHOOSE i \in 1..Len(tbl) : tbl[i].name = name
         IN  [error |-> FALSE, rows |-> tbl, tag |-> tbl[i]]
    ELSE LET row == [id |-> Len(tbl) + 1, name |-> name]
         IN  [error |-> FALSE, rows |-> Append(tbl, row), tag |-> row]

\* video_tags.upsert({video_id, tag_id}): conflict target is the primary key (video_id, tag_id)
VideoTagsUpsert(tbl, v, tagId) ==
    IF <<v, tagId>> \in DOMAIN tbl
    THEN [error |-> FALSE, rows |-> tbl]
    ELSE [error |-> FALSE,
          rows |-> [k \in DOMAIN tbl \cup {<<v, tagId>>} |->
                      IF k = <<v, tagId>> THEN 1 ELSE tbl[k]]]

(***************************************************************************)
(* Providers                                                               *)
(***************************************************************************)
\* fetchTranscript: null when the provider yields no segments or throws
fetchTranscript(outcome) ==
    IF outcome = "segments"
    THEN [text |-> CaptionText, source |-> "extractor"]
    ELSE NoResult

\* transcribeWithWhisper: a result tagged `whisper`, or null on every failure path
transcribeWithWhisper(outcome) ==
    IF outcome = "ok"
    THEN [text |-> WhisperText, source |-> "whisper"]
    ELSE NoResult

\* cleanTranscript: the model's rewriting of the raw text
cleanTranscript(rawText) ==
    CASE rawText = CaptionText -> "cleaned captions text"
      [] rawText = WhisperText -> "cleaned whisper text"
      [] OTHER -> rawText

\* generateTags: the parsed `tags` array, or [] when the response does not parse
\* or carries no array
generateTags(response) ==
    IF response.kind = "json" THEN response.tags ELSE <<>>

\* what the tagging call yields: a JSON object with a `tags` array, a response that
\* does not parse, one without a `tags` array, or a rejected request
TagResponses ==
    {[kind |-> "json", tags |-> t] : t \in TagLists} \cup
    {[kind |-> k, tags |-> <<>>] : k \in {"invalid json", "no tags array", "fail"}}

\* processTranscript: cleaning, then summary and tags (Promise.all); rejects when any
\* of the three calls rejects
processTranscript(rawText, clean, summarize, tagging) ==
    IF clean = "fail" \/ summarize = "fail" \/ tagging.kind = "fail"
    THEN [threw |-> TRUE, cleanedText |-> "", summary |-> "", tags |-> <<>>]
    ELSE [threw |-> FALSE,
          cleanedText |-> cleanTranscript(rawText),
          summary |-> "summary",
          tags |-> generateTags(tagging)]

(***************************************************************************)
(* ingestVideo                                                             *)
(***************************************************************************)
NewRun(v, skip) ==
    [video |-> v, skipLlmProcessing |-> skip, existing |-> "absent",
     transcriptResult |-> NoResult, primary |-> "none", whisperCalled |-> FALSE,
     llmCalled |-> FALSE, llmFailed |-> FALSE,
     cleanedText |-> "", summary |-> "", tags |-> <<>>, i |-> 0, tag |-> 0,
     saved |-> "none", tagError |-> FALSE, writes |-> {}, nlog |-> 0, ret |-> "none"]

IdleRun == NewRun("v1", FALSE)

\* log(step, status): one ingestion_logs row
LogRow(r, step, status) == [video_id |-> r.video, step |-> step, status |-> status]

\* the locals of a run that has returned: only its outcome is kept
Returned(r, ret) ==
    [NewRun(r.video, FALSE) EXCEPT
        !.ret = ret, !.writes = r.writes, !.tagError = r.tagError]

\* mutant: the completed check is missing
AlreadyProcessed_Never(existing) == FALSE

\* if (existing?.status === 'completed')
AlreadyProcessed(existing) == existing = "completed"

\* mutant: the fallback runs whatever the primary returned
NeedsWhisper_Always(result) == TRUE

\* if (!transcriptResult) before the Whisper fallback
NeedsWhisper(result) == result = NoResult

\* mutant: a missing transcript is not detected
NoTranscript_Never(result) == FALSE

\* if (!transcriptResult) after the fallback
NoTranscript(result) == result = NoResult

AfterAcquire(result) == IF NoTranscript(result) THEN "nofound" ELSE "enrich"

\* try { processTranscript } catch { continue with raw transcript }
WithFallback(rawText, processed) ==
    IF processed.threw
    THEN [cleanedText |-> rawText, summary |-> "", tags |-> <<>>]
    ELSE [cleanedText |-> processed.cleanedText, summary |-> processed.summary,
          tags |-> processed.tags]

\* mutant: a rejected processTranscript reaches the outer catch
AfterEnrich_Propagates(threw) == IF threw THEN "catch" ELSE "save"

\* where the run continues after the enrichment block: the inner catch swallows
\* the rejection
AfterEnrich(threw) == "save"

Start(p) ==
    /\ pc[p] \in {"idle", "done"}
    /\ runsStarted < MaxRuns
    /\ \E v \in VideoIds, skip \in BOOLEAN :
         run' = [run EXCEPT ![p] = NewRun(v, skip)]
    /\ pc' = [pc EXCEPT ![p] = "check"]
    /\ runsStarted' = runsStarted + 1
    /\ UNCHANGED <<storeVars, enrichVars, searchVars, embedVars, libVars, batchVars>>

\* select id, status where youtube_id; skip when completed; getVideo
CheckExisting(p) ==
    /\ pc[p] = "check"
    /\ LET existing == videos[run[p].video] IN
       IF AlreadyProcessed(existing)
       THEN /\ run' = [run EXCEPT ![p] = Returned(run[p], "skipped")]
            /\ pc' = [pc EXCEPT ![p] = "done"]
       ELSE \E found \in BOOLEAN :
            IF found
            THEN /\ run' = [run EXCEPT ![p].existing = existing]
                 /\ pc' = [pc EXCEPT ![p] = "mark"]
            ELSE /\ run' = [run EXCEPT ![p] = Returned(run[p], "failed")]
                 /\ pc' = [pc EXCEPT ![p] = "done"]
    /\ UNCHANGED <<storeVars, runsStarted, enrichVars, searchVars, embedVars, libVars, batchVars>>

\* update status 'processing' of the existing row, or insert the row as 'processing'
MarkProcessing(p) ==
    /\ pc[p] = "mark"
    /\ LET r == run[p] IN
       IF r.existing # "absent"
       THEN /\ videos' = VideosUpdate(videos, r.video, "processing")
            /\ run' = [run EXCEPT ![p].writes = @ \cup {"videos"}]
            /\ pc' = [pc EXCEPT ![p] = "fetch"]
       ELSE LET res == VideosInsert(videos, r.video, "processing") IN
            /\ videos' = res.rows
            /\ run' = [run EXCEPT ![p] =
                          LET w == [r EXCEPT !.writes = @ \cup {"videos"}]
                          IN  IF res.error THEN Returned(w, "threw") ELSE w]
            /\ pc' = [pc EXCEPT ![p] = IF res.error THEN "done" ELSE "fetch"]
    /\ UNCHANGED <<transcripts, tags, video_tags, ingestion_logs, runsStarted, enrichVars, searchVars, embedVars, libVars, batchVars>>

\* log fetch_transcript/started; fetchTranscript
FetchTranscript(p) ==
    /\ pc[p] = "fetch"
    /\ \E outcome \in {"segments", "empty", "throws"} :
         LET r == run[p]
             result == fetchTranscript(outcome)
         IN  /\ run' = [run EXCEPT ![p].transcriptResult = result,
                                   ![p].primary = IF outcome = "segments" THEN "yielded" ELSE "nothing",
                                   ![p].writes = @ \cup {"ingestion_logs"},
                                   ![p].nlog = @ + 1]
             /\ ingestion_logs' = ingestion_logs \cup {LogRow(r, "fetch_transcript", "started")}
             /\ pc' = [pc EXCEPT ![p] = IF NeedsWhisper(result) THEN "whisper"
                                         ELSE AfterAcquire(result)]
    /\ UNCHANGED <<videos, transcripts, tags, video_tags, runsStarted, enrichVars, searchVars, embedVars, libVars, batchVars>>

\* transcribeWithWhisper fallback
Whisper(p) ==
    /\ pc[p] = "whisper"
    /\ \E outcome \in {"ok", "null"} :
         LET result == transcribeWithWhisper(outcome) IN
         /\ run' = [run EXCEPT ![p].transcriptResult = result, ![p].whisperCalled = TRUE]
         /\ pc' = [pc EXCEPT ![p] = AfterAcquire(result)]
    /\ UNCHANGED <<storeVars, runsStarted, enrichVars, searchVars, embedVars, libVars, batchVars>>

\* no transcript: log fetch_transcript/failed, status 'failed', return
AcquireFailed(p) ==
    /\ pc[p] = "nofound"
    /\ LET r == run[p] IN
       /\ ingestion_logs' = ingestion_logs \cup {LogRow(r, "fetch_transcript", "failed")}
       /\ videos' = VideosUpdate(videos, r.video, "failed")
       /\ run' = [run EXCEPT ![p] =
                     Returned([r EXCEPT !.writes = @ \cup {"ingestion_logs", "videos"},
                                        !.nlog = @ + 1], "failed")]
    /\ pc' = [pc EXCEPT ![p] = "done"]
    /\ UNCHANGED <<transcripts, tags, video_tags, runsStarted, enrichVars, searchVars, embedVars, libVars, batchVars>>

\* log fetch_transcript/completed; processTranscript unless skipped, falling back to
\* the raw text when it rejects
Enrich(p) ==
    /\ pc[p] = "enrich"
    /\ LET r == run[p]
           raw == r.transcriptResult.text
           done == LogRow(r, "fetch_transcript", "completed")
       IN
       IF r.skipLlmProcessing
       THEN /\ run' = [run EXCEPT ![p].cleanedText = raw, ![p].summary = "",
                                  ![p].tags = <<>>,
                                  ![p].writes = @ \cup {"ingestion_logs"},
                                  ![p].nlog = @ + 1]
            /\ ingestion_logs' = ingestion_logs \cup {done}
            /\ pc' = [pc EXCEPT ![p] = "save"]
       ELSE \E clean \in {"ok", "fail"}, summarize \in {"ok", "fail"},
               tagging \in TagResponses :
            LET processed == processTranscript(raw, clean, summarize, tagging)
                used == WithFallback(raw, processed)
            IN
            /\ run' = [run EXCEPT
                 ![p].llmCalled = TRUE,
                 ![p].llmFailed = processed.threw,
                 ![p].cleanedText = used.cleanedText,
                 ![p].summary = used.summary,
                 ![p].tags = used.tags,
                 ![p].writes = @ \cup {"ingestion_logs"},
                 ![p].nlog = @ + 3]
            /\ ingestion_logs' = ingestion_logs \cup
                 {done, LogRow(r, "llm_processing", "started"),
                  LogRow(r, "llm_processing",
                         IF processed.threw THEN "failed" ELSE "completed")}
            /\ pc' = [pc EXCEPT ![p] = AfterEnrich(processed.threw)]
    /\ UNCHANGED <<videos, transcripts, tags, video_tags, runsStarted, enrichVars, searchVars, embedVars, libVars, batchVars>>

\* transcripts.upsert(...): the outcome is not inspected
TranscriptPayload(r) ==
    [video_id |-> r.video,
     raw_text |-> r.transcriptResult.text,
     cleaned_text |-> r.cleanedText,
     summary |-> IF r.summary = "" THEN NULL ELSE r.summary,
     source |-> r.transcriptResult.source,
     processing_status |-> "completed"]

AfterSave(r) == IF Len(r.tags) > 0 THEN "tag" ELSE "complete"

SaveTranscript(p) ==
    /\ pc[p] = "save"
    /\ \E storeUp \in BOOLEAN :
         LET r == run[p]
             res == IF storeUp THEN TranscriptsUpsert(transcripts, TranscriptPayload(r))
                    ELSE [error |-> TRUE, rows |-> transcripts]
         IN  /\ transcripts' = res.rows
             /\ run' = [run EXCEPT ![p].saved = IF res.error THEN "error" ELSE "ok",
                                   ![p].writes = @ \cup {"transcripts"},
                                   ![p].i = 1]
             /\ pc' = [pc EXCEPT ![p] = AfterSave(r)]
    /\ UNCHANGED <<videos, tags, video_tags, ingestion_logs, runsStarted, enrichVars, searchVars, embedVars, libVars, batchVars>>

\* tags.upsert({ name: tagName.toLowerCase() }); a non-string item has no toLowerCase
\* and the TypeError reaches the catch block
UpsertTag(p) ==
    /\ pc[p] = "tag"
    /\ LET r == run[p]
           tagName == r.tags[r.i]
       IN
       IF tagName.type # "string"
       THEN /\ pc' = [pc EXCEPT ![p] = "catch"]
            /\ UNCHANGED <<tags, run>>
       ELSE LET res == TagsUpsert(tags, toLowerCase(tagName.value)) IN
            /\ tags' = res.rows
            /\ run' = [run EXCEPT ![p].tag = IF res.error THEN 0 ELSE res.tag.id,
                                  ![p].tagError = @ \/ res.error,
                                  ![p].i = IF res.error THEN @ + 1 ELSE @,
                                  ![p].writes = @ \cup {"tags"}]
            /\ pc' = [pc EXCEPT ![p] = IF ~res.error THEN "link"
                                        ELSE IF r.i < Len(r.tags) THEN "tag" ELSE "complete"]
    /\ UNCHANGED <<videos, transcripts, video_tags, ingestion_logs, runsStarted, enrichVars, searchVars, embedVars, libVars, batchVars>>

\* video_tags.upsert({ video_id, tag_id })
LinkTag(p) ==
    /\ pc[p] = "link"
    /\ LET r == run[p] IN
       /\ video_tags' = VideoTagsUpsert(video_tags, r.video, r.tag).rows
       /\ run' = [run EXCEPT ![p].i = @ + 1,
                             ![p].tagError = @ \/ VideoTagsUpsert(video_tags, r.video, r.tag).error,
                             ![p].writes = @ \cup {"video_tags"}]
       /\ pc' = [pc EXCEPT ![p] = IF r.i < Len(r.tags) THEN "tag" ELSE "complete"]
    /\ UNCHANGED <<videos, transcripts, tags, ingestion_logs, runsStarted, enrichVars, searchVars, embedVars, libVars, batchVars>>

\* update status 'completed'; return success
MarkCompleted(p) ==
    /\ pc[p] = "complete"
    /\ videos' = VideosUpdate(videos, run[p].video, "completed")
    /\ run' = [run EXCEPT ![p] =
                  Returned([run[p] EXCEPT !.writes = @ \cup {"videos"}], "success")]
    /\ pc' = [pc EXCEPT ![p] = "done"]
    /\ UNCHANGED <<transcripts, tags, video_tags, ingestion_logs, runsStarted, enrichVars, searchVars, embedVars, libVars, batchVars>>

\* catch: log error/failed, status 'failed', return failed
CatchError(p) ==
    /\ pc[p] = "catch"
    /\ LET r == run[p] IN
       /\ ingestion_logs' = ingestion_logs \cup {LogRow(r, "error", "failed")}
       /\ videos' = VideosUpdate(videos, r.video, "failed")
       /\ run' = [run EXCEPT ![p] =
                     Returned([r EXCEPT !.writes = @ \cup {"ingestion_logs", "videos"},
                                        !.nlog = @ + 1], "failed")]
    /\ pc' = [pc EXCEPT ![p] = "done"]
    /\ UNCHANGED <<transcripts, tags, video_tags, runsStarted, enrichVars, searchVars, embedVars, libVars, batchVars>>

\* the positions of a run between the write of status 'processing' and its final
\* status write
AbortPoints ==
    {"fetch", "whisper", "nofound", "enrich", "save", "tag", "link", "complete", "catch"}

\* the script is stopped while ingestVideo waits in one of its awaits: nothing more of
\* the run is executed
Abort(p) ==
    /\ pc[p] \in AbortPoints
    /\ run' = [run EXCEPT ![p] = Returned(run[p], "aborted")]
    /\ pc' = [pc EXCEPT ![p] = "done"]
    /\ UNCHANGED <<storeVars, runsStarted, enrichVars, searchVars, embedVars, libVars, batchVars>>

(***************************************************************************)
(* enrichVideos: the enrichment script                                     *)
(***************************************************************************)
IdleEnrich == [todo |-> <<>>, processed |-> WithFallback("", processTranscript("", "fail", "ok", [kind |-> "fail", tags |-> <<>>])),
               i |-> 0, tag |-> 0, tagError |-> FALSE]

\* transcripts.update({cleaned_text, summary}).eq('video_id', videoId)
TranscriptsUpdate(tbl, v, cleanedText, summary) ==
    [i \in 1..Len(tbl) |->
        IF tbl[i].video_id = v
        THEN [tbl[i] EXCEPT !.cleaned_text = cleanedText, !.summary = summary]
        ELSE tbl[i]]

\* select video_id, raw_text, summary from transcripts where summary is null
NeedingEnrichment(tbl) == SelectSeq(tbl, LAMBDA row : row.summary = NULL)

\* the next transcript of the batch, or the end of the script
EnrichAdvance(e) ==
    IF Len(e.todo) > 1 THEN "process" ELSE "idle"

EnrichNext(e) ==
    IF Len(e.todo) > 1
    THEN [IdleEnrich EXCEPT !.todo = Tail(e.todo), !.tagError = e.tagError]
    ELSE [IdleEnrich EXCEPT !.tagError = e.tagError]

EnrichStart ==
    /\ epc = "idle"
    /\ runsStarted < MaxRuns
    /\ runsStarted' = runsStarted + 1
    /\ LET todo == NeedingEnrichment(transcripts) IN
       /\ erun' = [IdleEnrich EXCEPT !.todo = todo]
       /\ epc' = IF Len(todo) = 0 THEN "idle" ELSE "process"
    /\ UNCHANGED <<storeVars, ingestVars, searchVars, embedVars, libVars, batchVars>>

\* processTranscript(t.raw_text); a rejection is counted and the loop goes on
EnrichProcess ==
    /\ epc = "process"
    /\ \E clean \in {"ok", "fail"}, summarize \in {"ok", "fail"}, tagging \in TagResponses :
         LET t == Head(erun.todo)
             processed == processTranscript(t.raw_text, clean, summarize, tagging)
         IN  IF processed.threw
             THEN /\ erun' = EnrichNext(erun)
                  /\ epc' = EnrichAdvance(erun)
             ELSE /\ erun' = [erun EXCEPT !.processed = WithFallback(t.raw_text, processed)]
                  /\ epc' = "update"
    /\ UNCHANGED <<storeVars, ingestVars, runsStarted, searchVars, embedVars, libVars, batchVars>>

EnrichUpdate ==
    /\ epc = "update"
    /\ LET t == Head(erun.todo) IN
       /\ transcripts' = TranscriptsUpdate(transcripts, t.video_id,
                                           erun.processed.cleanedText, erun.processed.summary)
       /\ IF Len(erun.processed.tags) > 0
          THEN /\ erun' = [erun EXCEPT !.i = 1]
               /\ epc' = "tag"
          ELSE /\ erun' = EnrichNext(erun)
               /\ epc' = EnrichAdvance(erun)
    /\ UNCHANGED <<videos, tags, video_tags, ingestion_logs, ingestVars, runsStarted, searchVars, embedVars, libVars, batchVars>>

\* tags.upsert({ name: tagName.toLowerCase() }, { onConflict: 'name' })
EnrichUpsertTag ==
    /\ epc = "tag"
    /\ LET tagName == erun.processed.tags[erun.i] IN
       IF tagName.type # "string"
       THEN /\ erun' = EnrichNext(erun)
            /\ epc' = EnrichAdvance(erun)
            /\ UNCHANGED tags
       ELSE LET res == TagsUpsert(tags, toLowerCase(tagName.value)) IN
            /\ tags' = res.rows
            /\ IF ~res.error
               THEN /\ erun' = [erun EXCEPT !.tag = res.tag.id]
                    /\ epc' = "link"
               ELSE IF erun.i < Len(erun.processed.tags)
               THEN /\ erun' = [erun EXCEPT !.i = @ + 1, !.tagError = TRUE]
                    /\ epc' = "tag"
               ELSE /\ erun' = EnrichNext([erun EXCEPT !.tagError = TRUE])
                    /\ epc' = EnrichAdvance(erun)
    /\ UNCHANGED <<videos, transcripts, video_tags, ingestion_logs, ingestVars, runsStarted, searchVars, embedVars, libVars, batchVars>>

\* video_tags.upsert({ video_id, tag_id }, { onConflict: 'video_id,tag_id' })
EnrichLinkTag ==
    /\ epc = "link"
    /\ LET t == Head(erun.todo)
           res == VideoTagsUpsert(video_tags, t.video_id, erun.tag)
           e == [erun EXCEPT !.tagError = @ \/ res.error]
       IN
       /\ video_tags' = res.rows
       /\ IF erun.i < Len(erun.processed.tags)
          THEN /\ erun' = [e EXCEPT !.i = @ + 1]
               /\ epc' = "tag"
          ELSE /\ erun' = EnrichNext(e)
               /\ epc' = EnrichAdvance(erun)
    /\ UNCHANGED <<videos, transcripts, tags, ingestion_logs, ingestVars, runsStarted, searchVars, embedVars, libVars, batchVars>>

(***************************************************************************)
(* Retrieval: semanticSearch, searchVideos, tagSearch, hybridSearch        *)
(***************************************************************************)
MaxLimit == 3                        \* `limit` ranges over 1..MaxLimit
MaxHits == 2                         \* rows one request answers with (never more than `limit`)
SearchIds == {"v1", "v2", "v3"}      \* completed videos the requests may answer with

\* videos.published_at of the videos above (v2 and v3 were published together)
published_at == [v \in SearchIds |-> CASE v = "v1" -> 1 [] v = "v2" -> 2 [] OTHER -> 2]

Min(a, b) == IF a < b THEN a ELSE b

Range(list) == {list[i] : i \in 1..Len(list)}

NoDuplicates(list) == \A i, j \in 1..Len(list) : i # j => list[i] # list[j]

\* rows a select(...).limit(n) may answer with: each video once, in any order
RowLists(n) ==
    {l \in UNION {[1..k -> SearchIds] : k \in 0..Min(n, MaxHits)} : NoDuplicates(l)}

\* rows of match_transcript_chunks(match_count = n): one per chunk, so a video may repeat
ChunkLists(n) == UNION {[1..k -> SearchIds] : k \in 0..Min(n, MaxHits)}

\* {data, error} of a request: on error `data` is null, which every caller reads as []
Responses(lists) ==
    {[error |-> TRUE, data |-> <<>>]} \cup {[error |-> FALSE, data |-> l] : l \in lists}

\* rows of videos.select(...).in('id', ids).eq('status', 'completed'): no limit, no order
DetailLists(ids) ==
    {l \in UNION {[1..k -> Range(ids)] : k \in 0..Len(ids)} : NoDuplicates(l)}

\* [...new Set(list)] and Array.from(new Map(...).values()): first occurrences, in order
RECURSIVE UniqueFrom(_, _, _)
UniqueFrom(list, i, acc) ==
    IF i > Len(list) THEN acc
    ELSE UniqueFrom(list, i + 1,
                    IF list[i] \in Range(acc) THEN acc ELSE Append(acc, list[i]))

Unique(list) == UniqueFrom(list, 1, <<>>)

\* list.slice(from, to)
slice(list, from, to) == SubSeq(list, from + 1, Min(to, Len(list)))

\* Array.prototype.sort by published_at DESC: stable, equal dates keep their order
RECURSIVE InsertByDate(_, _)
InsertByDate(sorted, v) ==
    IF sorted = <<>> THEN <<v>>
    ELSE IF published_at[Head(sorted)] >= published_at[v]
         THEN <<Head(sorted)>> \o InsertByDate(Tail(sorted), v)
         ELSE <<v>> \o sorted

RECURSIVE SortFrom(_, _, _)
SortFrom(list, i, acc) ==
    IF i > Len(list) THEN acc ELSE SortFrom(list, i + 1, InsertByDate(acc, list[i]))

SortByPublishedDesc(list) == SortFrom(list, 1, <<>>)

\* searchVideos(client, query, {limit, offset})
searchVideos(videoResults, transcriptResults, limit, offset) ==
    LET allVideos == videoResults.data \o transcriptResults.data
        uniqueVideos == SortByPublishedDesc(Unique(allVideos))
    IN  slice(uniqueVideos, offset, offset + limit)

(***************************************************************************)
(* Paging through searchVideos by way of GET /api/search                   *)
(***************************************************************************)
\* rows of the store that match one of the two queries, in the order the store
\* answers them: each completed video at most once
MatchLists ==
    {l \in UNION {[1..k -> SearchIds] : k \in 0..Cardinality(SearchIds)} : NoDuplicates(l)}

\* {data, error} of a query ending in .limit(limit): the first `limit` matching rows
Answer(matches, limit, error) ==
    IF error THEN [error |-> TRUE, data |-> <<>>]
    ELSE [error |-> FALSE, data |-> slice(matches, 0, limit)]

NewPaging(videoMatches, transcriptMatches, limit) ==
    [videoMatches |-> videoMatches, transcriptMatches |-> transcriptMatches,
     limit |-> limit, offset |-> 0, pages |-> <<>>, errored |-> FALSE]

IdlePaging == NewPaging(<<>>, <<>>, 1)

\* a client starts paging a query at offset 0 over a store with the given matches
PagingStart ==
    /\ kpc = "idle"
    /\ \E videoMatches \in MatchLists, transcriptMatches \in MatchLists,
          limit \in 1..MaxLimit :
         krun' = NewPaging(videoMatches, transcriptMatches, limit)
    /\ kpc' = "page"
    /\ UNCHANGED <<storeVars, ingestVars, runsStarted, enrichVars, searchVars, embedVars,
                   splitVars, cleanVars, whisperVars, batchVars, llmVars, overlapVars>>

\* GET /api/search?q=..&limit=..&offset=..: one searchVideos call; the client asks for
\* the next page while hasMore (videos.length === limit)
PageRequest ==
    /\ kpc = "page"
    /\ \E videoError \in BOOLEAN, transcriptError \in BOOLEAN :
         LET result == searchVideos(Answer(krun.videoMatches, krun.limit, videoError),
                                    Answer(krun.transcriptMatches, krun.limit,
                                           transcriptError),
                                    krun.limit, krun.offset)
         IN  /\ krun' = [krun EXCEPT !.pages = Append(@, result),
                                     !.offset = @ + krun.limit,
                                     !.errored = @ \/ videoError \/ transcriptError]
             /\ kpc' = IF Len(result) = krun.limit THEN "page" ELSE "done"
    /\ UNCHANGED <<storeVars, ingestVars, runsStarted, enrichVars, searchVars, embedVars,
                   splitVars, cleanVars, whisperVars, batchVars, llmVars, overlapVars>>

\* mutant: semanticSearch without its try/catch
semanticSearch_NoCatch(embedding, rpc) ==
    IF embedding = "throws" THEN [threw |-> TRUE, data |-> <<>>]
    ELSE IF embedding = "empty" \/ rpc.error THEN [threw |-> FALSE, data |-> <<>>]
    ELSE [threw |-> FALSE, data |-> rpc.data]

\* semanticSearch(query, limit): [] when the embedding request throws, the embedding
\* is empty or the rpc answers with an error
semanticSearch(embedding, rpc) ==
    IF embedding = "throws" THEN [threw |-> FALSE, data |-> <<>>]
    ELSE IF embedding = "empty" \/ rpc.error THEN [threw |-> FALSE, data |-> <<>>]
    ELSE [threw |-> FALSE, data |-> rpc.data]

\* fallbackTagSearch: tag ids, then video ids, then the rows; errors are not inspected
fallbackTagSearch(foundTags, videoTags, videoRows) ==
    IF foundTags # "rows" THEN <<>>
    ELSE IF videoTags # "rows" THEN <<>>
    ELSE videoRows.data

\* the fallback lost its result to a failed request
FallbackErrored(foundTags, videoTags, videoRows) ==
    \/ foundTags = "error"
    \/ foundTags = "rows" /\ videoTags = "error"
    \/ foundTags = "rows" /\ videoTags = "rows" /\ videoRows.error

\* tagSearch(query, limit)
tagSearch(primary, foundTags, videoTags, videoRows) ==
    IF primary.error
    THEN fallbackTagSearch(foundTags, videoTags, videoRows)
    ELSE primary.data

\* mutant: the merge of the earlier hybridSearch, semantic results first
AllVideos_SemanticFirst(tagResults, semanticVideos, keywordResults) ==
    semanticVideos \o keywordResults \o tagResults

\* const allVideos = [...tagResults, ...semanticVideos, ...keywordResults]
AllVideos(tagResults, semanticVideos, keywordResults) ==
    tagResults \o semanticVideos \o keywordResults

\* for (const v of allVideos) if (!seenIds.has(v.id)) { seenIds.add(v.id); uniqueVideos.push(v) }
RECURSIVE DedupLoop(_, _, _, _)
DedupLoop(allVideos, i, seenIds, uniqueVideos) ==
    IF i > Len(allVideos) THEN uniqueVideos
    ELSE IF allVideos[i] \notin seenIds
         THEN DedupLoop(allVideos, i + 1, seenIds \cup {allVideos[i]},
                        Append(uniqueVideos, allVideos[i]))
         ELSE DedupLoop(allVideos, i + 1, seenIds, uniqueVideos)

\* the value hybridSearch returns from the three strategy results
MergeResults(tagResults, semanticVideos, keywordResults, limit) ==
    slice(DedupLoop(AllVideos(tagResults, semanticVideos, keywordResults), 1, {}, <<>>),
          0, limit)

NewSearch(limit) ==
    [limit |-> limit, pending |-> {"semantic", "keyword", "tag"},
     semanticResults |-> <<>>, keywordResults |-> <<>>, tagResults |-> <<>>,
     semanticVideos |-> <<>>, errored |-> {}, rejected |-> FALSE,
     result |-> <<>>, outcome |-> "none"]

IdleSearch == NewSearch(1)

\* hybridSearch(query, limit) is called
SearchStart ==
    /\ spc \in {"idle", "done"}
    /\ \E limit \in 1..MaxLimit : srun' = NewSearch(limit)
    /\ spc' = "strategies"
    /\ UNCHANGED <<storeVars, ingestVars, runsStarted, enrichVars, embedVars, libVars, batchVars>>

\* semanticSearch(query, limit), one of the three promises
SemanticStrategy ==
    /\ spc = "strategies"
    /\ "semantic" \in srun.pending
    /\ \E embedding \in {"vector", "empty", "throws"},
          rpc \in Responses(ChunkLists(srun.limit)) :
         LET res == semanticSearch(embedding, rpc) IN
         srun' = [srun EXCEPT
                    !.pending = @ \ {"semantic"},
                    !.semanticResults = res.data,
                    !.rejected = @ \/ res.threw,
                    !.errored = IF embedding = "throws" \/ (embedding = "vector" /\ rpc.error)
                                THEN @ \cup {"semantic"} ELSE @]
    /\ UNCHANGED <<spc, storeVars, ingestVars, runsStarted, enrichVars, embedVars, libVars, batchVars>>

\* searchVideos(browserClient, query, { limit }), one of the three promises
KeywordStrategy ==
    /\ spc = "strategies"
    /\ "keyword" \in srun.pending
    /\ \E videoResults \in Responses(RowLists(srun.limit)),
          transcriptResults \in Responses(RowLists(srun.limit)) :
         srun' = [srun EXCEPT
                    !.pending = @ \ {"keyword"},
                    !.keywordResults =
                        searchVideos(videoResults, transcriptResults, srun.limit, 0),
                    !.errored = IF videoResults.error /\ transcriptResults.error
                                THEN @ \cup {"keyword"} ELSE @]
    /\ UNCHANGED <<spc, storeVars, ingestVars, runsStarted, enrichVars, embedVars, libVars, batchVars>>

\* tagSearch(query, limit), one of the three promises
TagStrategy ==
    /\ spc = "strategies"
    /\ "tag" \in srun.pending
    /\ \E primary \in Responses(RowLists(srun.limit)),
          foundTags \in {"rows", "none", "error"},
          videoTags \in {"rows", "none", "error"},
          videoRows \in Responses(RowLists(srun.limit)) :
         srun' = [srun EXCEPT
                    !.pending = @ \ {"tag"},
                    !.tagResults = tagSearch(primary, foundTags, videoTags, videoRows),
                    !.errored = IF primary.error
                                   /\ FallbackErrored(foundTags, videoTags, videoRows)
                                THEN @ \cup {"tag"} ELSE @]
    /\ UNCHANGED <<spc, storeVars, ingestVars, runsStarted, enrichVars, embedVars, libVars, batchVars>>

\* after Promise.all: the rows of the semantic hits are fetched, the three lists are
\* merged and the first `limit` videos returned; a rejected promise rejects the call
FetchAndMerge ==
    /\ spc = "strategies"
    /\ srun.pending = {}
    /\ IF srun.rejected
       THEN srun' = [srun EXCEPT !.outcome = "rejected"]
       ELSE LET semanticVideoIds == Unique(srun.semanticResults) IN
            \E detail \in IF Len(semanticVideoIds) > 0
                          THEN Responses(DetailLists(semanticVideoIds))
                          ELSE {[error |-> FALSE, data |-> <<>>]} :
              srun' = [srun EXCEPT
                         !.semanticVideos = detail.data,
                         !.errored = IF detail.error THEN @ \cup {"semantic"} ELSE @,
                         !.result = MergeResults(srun.tagResults, detail.data,
                                                 srun.keywordResults, srun.limit),
                         !.outcome = "returned"]
    /\ spc' = "done"
    /\ UNCHANGED <<storeVars, ingestVars, runsStarted, enrichVars, embedVars, libVars, batchVars>>

(***************************************************************************)
(* Embedding script: splitText, generateEmbeddings                         *)
(***************************************************************************)
CHUNK_SIZE == 1000
CHUNK_OVERLAP == 100
Lookahead == 50          \* normalized.slice(start, end + 50)

\* the characters of the texts the model names; whitespace comes in runs, as in
\* caption output
CaptionChars ==
    [i \in 1..2350 |->
        IF i % 13 \in {0, 1} THEN " "
        ELSE IF i % 211 = 5 THEN "."
        ELSE IF i % 101 = 7 THEN "\n"
        ELSE "a"]

CleanedCaptionChars ==
    [i \in 1..1400 |-> IF i % 9 = 0 THEN " " ELSE IF i % 170 = 4 THEN "." ELSE "b"]

WhisperChars ==
    [i \in 1..40 |-> IF i % 6 \in {0, 1} THEN " " ELSE IF i = 40 THEN "." ELSE "c"]

CleanedWhisperChars ==
    [i \in 1..30 |-> IF i % 7 = 0 THEN " " ELSE IF i = 30 THEN "." ELSE "d"]

Chars(text) ==
    CASE text = CaptionText -> CaptionChars
      [] text = "cleaned captions text" -> CleanedCaptionChars
      [] text = WhisperText -> WhisperChars
      [] text = "cleaned whisper text" -> CleanedWhisperChars
      [] OTHER -> <<>>

\* \s
IsSpace(c) == c \in {" ", "\n", "\t"}

\* text.replace(/\s+/g, ' '): of every run of whitespace the first character stays,
\* as a blank (computed by halves)
RECURSIVE CollapseRange(_, _, _)
CollapseRange(s, lo, hi) ==
    IF lo > hi THEN <<>>
    ELSE IF lo = hi
    THEN IF ~IsSpace(s[lo]) THEN <<s[lo]>>
         ELSE IF lo > 1 /\ IsSpace(s[lo - 1]) THEN <<>>
         ELSE <<" ">>
    ELSE LET mid == (lo + hi) \div 2
         IN  CollapseRange(s, lo, mid) \o CollapseRange(s, mid + 1, hi)

\* String.prototype.trim
trim(s) ==
    IF \A i \in 1..Len(s) : IsSpace(s[i]) THEN <<>>
    ELSE SubSeq(s,
                CHOOSE i \in 1..Len(s) : ~IsSpace(s[i]) /\ \A j \in 1..(i - 1) : IsSpace(s[j]),
                CHOOSE i \in 1..Len(s) : ~IsSpace(s[i]) /\ \A j \in (i + 1)..Len(s) : IsSpace(s[j]))

\* text.replace(/\s+/g, ' ').trim()
Normalize(s) == trim(CollapseRange(s, 1, Len(s)))

\* slice.lastIndexOf('.'), zero-based, -1 when absent
lastIndexOf(s, c) ==
    LET hits == {i \in 1..Len(s) : s[i] = c}
    IN  IF hits = {} THEN -1 ELSE (CHOOSE i \in hits : \A j \in hits : i >= j) - 1

\* mutant: the sentence boundary is searched twice as far beyond the chunk size
ChunkEnd_WideLookahead(normalized, start) ==
    LET fixedEnd == start + CHUNK_SIZE
        boundary == IF fixedEnd < Len(normalized)
                    THEN lastIndexOf(slice(normalized, start, fixedEnd + 2 * Lookahead), ".")
                    ELSE -1
    IN  IF fixedEnd < Len(normalized) /\ boundary * 10 > CHUNK_SIZE * 8
        THEN start + boundary + 1
        ELSE fixedEnd

\* one iteration of the while loop: `end` of the chunk that starts at `start`
ChunkEnd(normalized, start) ==
    LET fixedEnd == start + CHUNK_SIZE
        boundary == IF fixedEnd < Len(normalized)
                    THEN lastIndexOf(slice(normalized, start, fixedEnd + Lookahead), ".")
                    ELSE -1
    IN  IF fixedEnd < Len(normalized) /\ boundary * 10 > CHUNK_SIZE * 8
        THEN start + boundary + 1
        ELSE fixedEnd

\* the while loop of splitText: the [start, end) bounds of the chunks pushed
RECURSIVE SplitLoop(_, _, _)
SplitLoop(normalized, start, spans) ==
    IF ~(start < Len(normalized)) THEN spans
    ELSE LET end == ChunkEnd(normalized, start)
         IN  SplitLoop(normalized, end - CHUNK_OVERLAP,
                       Append(spans, [start |-> start, end |-> end]))

\* the texts of the model
ModelTexts ==
    {"", CaptionText, WhisperText, cleanTranscript(CaptionText), cleanTranscript(WhisperText)}

\* the slice bounds of the chunks of each text of the model
SplitTable ==
    [text \in ModelTexts |->
        IF Len(Chars(text)) = 0 THEN <<>> ELSE SplitLoop(Normalize(Chars(text)), 0, <<>>)]

\* the slice bounds of the chunks of a text
SplitSpans(text) == SplitTable[text]

\* splitText(text): the chunks, normalized.slice(start, end).trim()
splitText(text) ==
    LET normalized == Normalize(Chars(text))
        spans == SplitSpans(text)
    IN  [k \in 1..Len(spans) |-> trim(slice(normalized, spans[k].start, spans[k].end))]

(***************************************************************************)
(* splitText, one loop iteration per step, over a family of input texts    *)
(***************************************************************************)
MaxBlocks == 6           \* input texts are up to MaxBlocks blocks of 330 characters long

Letters == <<"a", "b", "c", "d", "e">>

\* an input text: its length, a '.' every `dotEvery` characters (0: none), a blank
\* every `spaceEvery` characters, doubled when `runs`
SplitInputs ==
    [len : {b * 330 + e : b \in 0..MaxBlocks, e \in {0, 20, 70}},
     dotEvery : {0, 61, 417},
     spaceEvery : {9, 100},
     runs : BOOLEAN]

InputChars(t) ==
    [i \in 1..t.len |->
        IF i % t.spaceEvery = 0 \/ (t.runs /\ i % t.spaceEvery = 1 /\ i > 1) THEN " "
        ELSE IF t.dotEvery > 0 /\ i % t.dotEvery = 0 THEN "."
        ELSE Letters[(i % 5) + 1]]

IdleSplit ==
    [text |-> [len |-> 0, dotEvery |-> 0, spaceEvery |-> 9, runs |-> FALSE],
     normalized |-> <<>>, start |-> 0, chunks |-> <<>>]

\* splitText(text) is called: `if (!text) return chunks`, else normalize, start = 0
SplitCall ==
    /\ splitPc = "idle"
    /\ \E t \in SplitInputs :
         LET text == InputChars(t) IN
         IF Len(text) = 0
         THEN /\ splitRun' = [IdleSplit EXCEPT !.text = t]
              /\ splitPc' = "done"
         ELSE /\ splitRun' = [IdleSplit EXCEPT !.text = t, !.normalized = Normalize(text)]
              /\ splitPc' = "loop"
    /\ UNCHANGED <<storeVars, ingestVars, runsStarted, enrichVars, searchVars, embedVars,
                   cleanVars, whisperVars, batchVars, pageVars,
                   llmVars, overlapVars>>

\* one iteration of while (start < normalized.length)
SplitIterate ==
    /\ splitPc = "loop"
    /\ splitRun.start < Len(splitRun.normalized)
    /\ LET end == ChunkEnd(splitRun.normalized, splitRun.start) IN
       splitRun' = [splitRun EXCEPT
                      !.chunks = Append(@, trim(slice(splitRun.normalized,
                                                      splitRun.start, end))),
                      !.start = end - CHUNK_OVERLAP]
    /\ UNCHANGED <<splitPc, storeVars, ingestVars, runsStarted, enrichVars, searchVars,
                   embedVars, cleanVars, whisperVars, batchVars, pageVars,
                   llmVars, overlapVars>>

\* the loop condition fails: return chunks
SplitReturn ==
    /\ splitPc = "loop"
    /\ ~(splitRun.start < Len(splitRun.normalized))
    /\ splitPc' = "done"
    /\ UNCHANGED <<splitRun, storeVars, ingestVars, runsStarted, enrichVars, searchVars,
                   embedVars, cleanVars, whisperVars, batchVars, pageVars,
                   llmVars, overlapVars>>

(***************************************************************************)
(* cleanTranscriptText over texts given as sequences of tokens: words,     *)
(* punctuation, whitespace and the pieces of HTML entities ("&", "amp;")   *)
(***************************************************************************)
MaxTokens == 5           \* input texts are up to MaxTokens tokens long

\* tokens made of word characters (\w), and tokens that begin with one
WordTokens == {"um", "uh", "er", "ah", "you", "know", "like", "I"}
EntityTails == {"amp;", "quot;", "lt;", "gt;", "nbsp;"}

StartsWord(t) == t \in WordTokens \cup EntityTails
EndsWord(t) == t \in WordTokens

\* \b before / after the token at i
BoundaryBefore(text, i) == i = 1 \/ ~EndsWord(text[i - 1])
BoundaryAfter(text, i) == i = Len(text) \/ ~StartsWord(text[i + 1])

\* text.replace(/pattern/g, replacement) for a literal pattern
RECURSIVE ReplaceAll(_, _, _)
ReplaceAll(text, pattern, replacement) ==
    IF Len(text) < Len(pattern) THEN text
    ELSE IF SubSeq(text, 1, Len(pattern)) = pattern
         THEN replacement \o ReplaceAll(SubSeq(text, Len(pattern) + 1, Len(text)),
                                        pattern, replacement)
         ELSE <<Head(text)>> \o ReplaceAll(Tail(text), pattern, replacement)

\* the chain of entity replacements, double-encoded entities first
DecodeEntities(text) ==
    LET r1 == ReplaceAll(text, <<"&", "amp;", "#39;">>, <<"'">>)
        r2 == ReplaceAll(r1, <<"&", "amp;", "quot;">>, <<"\"">>)
        r3 == ReplaceAll(r2, <<"&", "amp;", "amp;">>, <<"&">>)
        r4 == ReplaceAll(r3, <<"&", "amp;", "lt;">>, <<"<">>)
        r5 == ReplaceAll(r4, <<"&", "amp;", "gt;">>, <<">">>)
        r6 == ReplaceAll(r5, <<"&", "#39;">>, <<"'">>)
        r7 == ReplaceAll(r6, <<"&", "quot;">>, <<"\"">>)
        r8 == ReplaceAll(r7, <<"&", "amp;">>, <<"&">>)
        r9 == ReplaceAll(r8, <<"&", "lt;">>, <<"<">>)
        r10 == ReplaceAll(r9, <<"&", "gt;">>, <<">">>)
    IN  ReplaceAll(r10, <<"&", "nbsp;">>, <<" ">>)

\* the index after an optional [,.] at i
AfterPunct(text, i) ==
    IF i <= Len(text) /\ text[i] \in {",", "."} THEN i + 1 ELSE i

\* the index after the run of whitespace that starts at i
RECURSIVE AfterSpace(_, _)
AfterSpace(text, i) ==
    IF i <= Len(text) /\ IsSpace(text[i]) THEN AfterSpace(text, i + 1) ELSE i

\* .replace(/\b(um|uh|er|ah)\b[,.]?\s*/gi, '')
RECURSIVE RemoveUm(_, _)
RemoveUm(text, i) ==
    IF i > Len(text) THEN <<>>
    ELSE IF /\ text[i] \in {"um", "uh", "er", "ah"}
            /\ BoundaryBefore(text, i)
            /\ BoundaryAfter(text, i)
         THEN RemoveUm(text, AfterSpace(text, AfterPunct(text, i + 1)))
         ELSE <<text[i]>> \o RemoveUm(text, i + 1)

\* .replace(/\byou know[,.]?\s*/gi, '')
RECURSIVE RemoveYouKnow(_, _)
RemoveYouKnow(text, i) ==
    IF i > Len(text) THEN <<>>
    ELSE IF /\ i + 2 <= Len(text)
            /\ text[i] = "you" /\ text[i + 1] = " " /\ text[i + 2] = "know"
            /\ BoundaryBefore(text, i)
         THEN RemoveYouKnow(text, AfterSpace(text, AfterPunct(text, i + 3)))
         ELSE <<text[i]>> \o RemoveYouKnow(text, i + 1)

\* the words of the lookahead (?=\b(um|uh|I|we|they|he|she|it|you|so|and|but|the|a|an)\b)
\* that are tokens of the model
LikeFollowers == {"um", "uh", "I", "you"}

\* .replace(/\blike\b[,.]?\s+(?=\b(...)\b)/gi, '')
RECURSIVE RemoveLike(_, _)
RemoveLike(text, i) ==
    IF i > Len(text) THEN <<>>
    ELSE LET j == AfterPunct(text, i + 1)
             k == AfterSpace(text, j)
         IN  IF /\ text[i] = "like"
                /\ BoundaryBefore(text, i)
                /\ BoundaryAfter(text, i)
                /\ k > j
                /\ k <= Len(text)
                /\ text[k] \in LikeFollowers
                /\ BoundaryAfter(text, k)
             THEN RemoveLike(text, k)
             ELSE <<text[i]>> \o RemoveLike(text, i + 1)

IsTerminator(t) == t \in {".", "!", "?"}

\* the index after the run of sentence terminators ([.!?]+) that starts at i
RECURSIVE AfterTerminators(_, _)
AfterTerminators(text, i) ==
    IF i <= Len(text) /\ IsTerminator(text[i]) THEN AfterTerminators(text, i + 1) ELSE i

\* the index after the run of other tokens ([^.!?]+) that starts at i
RECURSIVE AfterBody(_, _)
AfterBody(text, i) ==
    IF i <= Len(text) /\ ~IsTerminator(text[i]) THEN AfterBody(text, i + 1) ELSE i

\* cleaned.match(/[^.!?]+[.!?]+\s*/g): the matches from index i on
RECURSIVE MatchSentences(_, _)
MatchSentences(text, i) ==
    IF i > Len(text) THEN <<>>
    ELSE IF IsTerminator(text[i]) THEN MatchSentences(text, i + 1)
    ELSE LET j == AfterBody(text, i) IN
         IF j > Len(text) THEN <<>>
         ELSE LET m == AfterSpace(text, AfterTerminators(text, j))
              IN  <<SubSeq(text, i, m - 1)>> \o MatchSentences(text, m)

\* sentences.slice(i, i + n).join('')
RECURSIVE JoinSentences(_, _, _)
JoinSentences(sentences, from, to) ==
    IF from > to \/ from > Len(sentences) THEN <<>>
    ELSE sentences[from] \o JoinSentences(sentences, from + 1, to)

\* the paragraph loop: for (i = 0; i < sentences.length; i += n), then join('\n\n')
RECURSIVE Paragraphs(_, _, _, _)
Paragraphs(sentences, i, n, first) ==
    IF i > Len(sentences) THEN <<>>
    ELSE LET paragraph == trim(JoinSentences(sentences, i, i + n - 1))
         IN  IF paragraph = <<>>
             THEN Paragraphs(sentences, i + n, n, first)
             ELSE (IF first THEN <<>> ELSE <<"\n", "\n">>) \o paragraph
                  \o Paragraphs(sentences, i + n, n, FALSE)

\* cleanTranscriptText(text, options)
cleanTranscriptText(text, options) ==
    LET decoded == DecodeEntities(text)
        unfilled == IF options.removeFillers
                    THEN RemoveLike(RemoveYouKnow(RemoveUm(decoded, 1), 1), 1)
                    ELSE decoded
        cleaned == Normalize(unfilled)
        matches == MatchSentences(cleaned, 1)
        sentences == IF matches = <<>> THEN <<cleaned>> ELSE matches
    IN  IF options.addParagraphs /\ options.sentencesPerParagraph > 0
        THEN Paragraphs(sentences, 1, options.sentencesPerParagraph, TRUE)
        ELSE cleaned

\* the option sets: the defaults, and each option changed in turn
DefaultOptions ==
    [removeFillers |-> TRUE, addParagraphs |-> TRUE, sentencesPerParagraph |-> 4]

OptionSets ==
    {DefaultOptions,
     [DefaultOptions EXCEPT !.removeFillers = FALSE],
     [DefaultOptions EXCEPT !.addParagraphs = FALSE],
     [DefaultOptions EXCEPT !.sentencesPerParagraph = 1]}

\* the texts: up to MaxTokens tokens of entity pieces, or of fillers and the words,
\* blanks and punctuation around them
TokenSeqs(alphabet) == UNION {[1..n -> alphabet] : n \in 0..MaxTokens}

CleanInputs ==
    TokenSeqs({"&", "amp;", "#39;", "."})
    \cup TokenSeqs({"like", "I", "um", " ", ".", ","})
    \cup TokenSeqs({"you", "know", " ", "\n"})

IdleClean == [text |-> <<>>, options |-> DefaultOptions, first |-> <<>>, result |-> <<>>]

\* cleanTranscriptText(text, options) is called
CleanCall ==
    /\ cleanPc = "idle"
    /\ \E text \in CleanInputs, options \in OptionSets :
         LET result == cleanTranscriptText(text, options) IN
         cleanRun' = [text |-> text, options |-> options, first |-> result,
                      result |-> result]
    /\ cleanPc' = "once"
    /\ UNCHANGED <<storeVars, ingestVars, runsStarted, enrichVars, searchVars, embedVars,
                   splitVars, whisperVars, batchVars, pageVars,
                   llmVars, overlapVars>>

\* cleanTranscriptText is called on its own result, with the same options
CleanAgain ==
    /\ cleanPc = "once"
    /\ cleanRun' = [cleanRun EXCEPT
                      !.text = cleanRun.result,
                      !.result = cleanTranscriptText(cleanRun.result, cleanRun.options)]
    /\ cleanPc' = "twice"
    /\ UNCHANGED <<storeVars, ingestVars, runsStarted, enrichVars, searchVars, embedVars,
                   splitVars, whisperVars, batchVars, pageVars,
                   llmVars, overlapVars>>

(***************************************************************************)
(* transcribeWithWhisper, step by step, with the files of os.tmpdir()      *)
(***************************************************************************)
WHISPER_LIMIT_MB == 24

\* sizes of the downloaded audio, in MB
AudioSizes == {5, WHISPER_LIMIT_MB, WHISPER_LIMIT_MB + 1, 30}

\* what the yt-dlp download command can do: write the .mp3 and exit 0; exit 0 without
\* the .mp3; fail before anything is written; fail after the download of the source
\* stream has started, which leaves that stream's file (hosksaid_<id>.<ext>.part)
DownloadOutcomes == {"mp3", "no_file", "throws", "throws_partial"}

\* path.join(tempDir, `hosksaid_${videoId}.mp3`)
expectedFile(videoId) == [video |-> videoId, ext |-> "mp3"]

\* the file the source stream is downloaded to before it is converted
partFile(videoId) == [video |-> videoId, ext |-> "part"]

\* fs.existsSync(file)
existsSync(fs, file) == \E f \in fs : f.video = file.video /\ f.ext = file.ext

\* fs.statSync(file).size / (1024 * 1024)
statSizeMB(fs, file) ==
    (CHOOSE f \in fs : f.video = file.video /\ f.ext = file.ext).mb

\* fs.unlinkSync(file)
unlinkSync(fs, file) == {f \in fs : ~(f.video = file.video /\ f.ext = file.ext)}

\* mutant: no audio is too large
TooLarge_Never(mb) == FALSE

\* if (fileSizeInMB > 24)
TooLarge(mb) == mb > WHISPER_LIMIT_MB

\* the call has not returned
NotReturned == [text |-> "", source |-> "pending"]

IdleWhisper ==
    [videoId |-> "v1", toolchain |-> "unchecked", downloads |-> 0, providerCalls |-> 0,
     fileSizeInMB |-> 0, sentMB |-> 0, ret |-> NotReturned]

\* transcribeWithWhisper(videoId) is called
WhisperCall ==
    /\ wpc \in {"idle", "done"}
    /\ \E v \in VideoIds : wrun' = [IdleWhisper EXCEPT !.videoId = v]
    /\ wpc' = "toolchain"
    /\ UNCHANGED <<files, storeVars, ingestVars, runsStarted, enrichVars, searchVars,
                   embedVars, splitVars, cleanVars, batchVars, pageVars,
                   llmVars, overlapVars>>

\* execSync('yt-dlp --version'): on an exception, return null
WhisperToolchain ==
    /\ wpc = "toolchain"
    /\ \E present \in BOOLEAN :
         IF present
         THEN /\ wrun' = [wrun EXCEPT !.toolchain = "present"]
              /\ wpc' = "download"
         ELSE /\ wrun' = [wrun EXCEPT !.toolchain = "absent", !.ret = NoResult]
              /\ wpc' = "done"
    /\ UNCHANGED <<files, storeVars, ingestVars, runsStarted, enrichVars, searchVars,
                   embedVars, splitVars, cleanVars, batchVars, pageVars,
                   llmVars, overlapVars>>

\* execSync(`yt-dlp -x --audio-format mp3 ... -o "${outputTemplate}" ...`)
WhisperDownload ==
    /\ wpc = "download"
    /\ \E outcome \in DownloadOutcomes, mb \in AudioSizes :
         /\ files' = CASE outcome = "mp3" ->
                            unlinkSync(files, expectedFile(wrun.videoId))
                            \cup {[video |-> wrun.videoId, ext |-> "mp3", mb |-> mb]}
                       [] outcome = "throws_partial" ->
                            unlinkSync(files, partFile(wrun.videoId))
                            \cup {[video |-> wrun.videoId, ext |-> "part", mb |-> mb]}
                       [] OTHER -> files
         /\ wpc' = IF outcome \in {"mp3", "no_file"} THEN "exists" ELSE "catch"
    /\ wrun' = [wrun EXCEPT !.downloads = 1]
    /\ UNCHANGED <<storeVars, ingestVars, runsStarted, enrichVars, searchVars,
                   embedVars, splitVars, cleanVars, batchVars, pageVars,
                   llmVars, overlapVars>>

\* if (!fs.existsSync(expectedFile)) return null
WhisperExists ==
    /\ wpc = "exists"
    /\ IF existsSync(files, expectedFile(wrun.videoId))
       THEN /\ wpc' = "size"
            /\ UNCHANGED wrun
       ELSE /\ wpc' = "done"
            /\ wrun' = [wrun EXCEPT !.ret = NoResult]
    /\ UNCHANGED <<files, storeVars, ingestVars, runsStarted, enrichVars, searchVars,
                   embedVars, splitVars, cleanVars, batchVars, pageVars,
                   llmVars, overlapVars>>

\* if (fileSizeInMB > 24) { fs.unlinkSync(expectedFile); return null; }
WhisperSize ==
    /\ wpc = "size"
    /\ LET mb == statSizeMB(files, expectedFile(wrun.videoId)) IN
       IF TooLarge(mb)
       THEN /\ files' = unlinkSync(files, expectedFile(wrun.videoId))
            /\ wrun' = [wrun EXCEPT !.fileSizeInMB = mb, !.ret = NoResult]
            /\ wpc' = "done"
       ELSE /\ wrun' = [wrun EXCEPT !.fileSizeInMB = mb]
            /\ wpc' = "provider"
            /\ UNCHANGED files
    /\ UNCHANGED <<storeVars, ingestVars, runsStarted, enrichVars, searchVars,
                   embedVars, splitVars, cleanVars, batchVars, pageVars,
                   llmVars, overlapVars>>

\* client.audio.transcriptions.create({file: fs.createReadStream(expectedFile), ...}),
\* then unlink and return the result; a provider error goes to the catch block
WhisperTranscribe ==
    /\ wpc = "provider"
    /\ \E answered \in BOOLEAN :
         LET sent == [wrun EXCEPT
                        !.providerCalls = @ + 1,
                        !.sentMB = statSizeMB(files, expectedFile(wrun.videoId))]
         IN  IF answered
             THEN /\ files' = unlinkSync(files, expectedFile(wrun.videoId))
                  /\ wrun' = [sent EXCEPT !.ret = transcribeWithWhisper("ok")]
                  /\ wpc' = "done"
             ELSE /\ wrun' = sent
                  /\ wpc' = "catch"
                  /\ UNCHANGED files
    /\ UNCHANGED <<storeVars, ingestVars, runsStarted, enrichVars, searchVars,
                   embedVars, splitVars, cleanVars, batchVars, pageVars,
                   llmVars, overlapVars>>

\* catch (error): if (fs.existsSync(expectedFile)) fs.unlinkSync(expectedFile); return null
WhisperCatch ==
    /\ wpc = "catch"
    /\ files' = IF existsSync(files, expectedFile(wrun.videoId))
                THEN unlinkSync(files, expectedFile(wrun.videoId))
                ELSE files
    /\ wrun' = [wrun EXCEPT !.ret = NoResult]
    /\ wpc' = "done"
    /\ UNCHANGED <<storeVars, ingestVars, runsStarted, enrichVars, searchVars,
                   embedVars, splitVars, cleanVars, batchVars, pageVars,
                   llmVars, overlapVars>>

(***************************************************************************)
(* cleanTranscript: splitting a long raw text for the model and joining    *)
(* the cleaned pieces. A text is a sequence of characters: "a" stands for  *)
(* any character outside [.!?], "." for a sentence terminator.             *)
(***************************************************************************)
maxChunkLength == 3      \* stands for the 30000 characters of the code
MaxTextLen == 6          \* longest raw text explored

RawTexts == UNION {[1..n -> {"a", "."}] : n \in 0..MaxTextLen}

\* end of the run of characters from position i on that are (terminator = TRUE) or are
\* not (terminator = FALSE) sentence terminators; i - 1 when the run is empty
RECURSIVE RunEnd(_, _, _)
RunEnd(text, i, terminator) ==
    IF i <= Len(text) /\ ((text[i] = ".") = terminator)
    THEN RunEnd(text, i + 1, terminator)
    ELSE i - 1

\* rawText.match(/[^.!?]+[.!?]+/g): from position i on, every run of non-terminators
\* followed by its run of terminators; terminators with nothing before them and text
\* after the last terminator match nothing
RECURSIVE MatchFrom(_, _)
MatchFrom(text, i) ==
    IF i > Len(text) THEN <<>>
    ELSE IF text[i] = "." THEN MatchFrom(text, i + 1)
    ELSE LET body == RunEnd(text, i, FALSE)
             last == RunEnd(text, body + 1, TRUE)
         IN  IF last = body THEN <<>>
             ELSE <<SubSeq(text, i, last)>> \o MatchFrom(text, last + 1)

\* rawText.match(/[^.!?]+[.!?]+/g) || [rawText]
Sentences(rawText) ==
    IF MatchFrom(rawText, 1) = <<>> THEN <<rawText>> ELSE MatchFrom(rawText, 1)

\* for (const sentence of sentences) { if (currentChunk.length + sentence.length >
\* maxChunkLength) { chunks.push(currentChunk); currentChunk = sentence } else
\* currentChunk += sentence }  if (currentChunk) chunks.push(currentChunk)
RECURSIVE ChunkLoop(_, _, _, _)
ChunkLoop(sentences, i, currentChunk, chunks) ==
    IF i > Len(sentences)
    THEN IF currentChunk # <<>> THEN Append(chunks, currentChunk) ELSE chunks
    ELSE IF Len(currentChunk) + Len(sentences[i]) > maxChunkLength
         THEN ChunkLoop(sentences, i + 1, sentences[i], Append(chunks, currentChunk))
         ELSE ChunkLoop(sentences, i + 1, currentChunk \o sentences[i], chunks)

\* the chunks cleanTranscript sends to the model
SplitForModel(rawText) ==
    IF Len(rawText) > maxChunkLength
    THEN ChunkLoop(Sentences(rawText), 1, <<>>, <<>>)
    ELSE <<rawText>>

\* response.choices[0].message.content of one request: empty, the chunk unchanged, or
\* an edited text
ModelContents(chunk) == {<<>>, chunk, <<"b">>}

\* cleanedChunks.join('\n\n')
RECURSIVE JoinChunks(_)
JoinChunks(cleanedChunks) ==
    IF cleanedChunks = <<>> THEN <<>>
    ELSE IF Len(cleanedChunks) = 1 THEN Head(cleanedChunks)
    ELSE Head(cleanedChunks) \o <<"\n", "\n">> \o JoinChunks(Tail(cleanedChunks))

IdleLlm == [rawText |-> <<>>, chunks |-> <<>>, cleanedChunks |-> <<>>, result |-> <<>>]

\* cleanTranscript(rawText) is called: the text is split
LlmSplit ==
    /\ lpc = "idle"
    /\ \E rawText \in RawTexts :
         lrun' = [IdleLlm EXCEPT !.rawText = rawText, !.chunks = SplitForModel(rawText)]
    /\ lpc' = "clean"
    /\ UNCHANGED <<storeVars, ingestVars, runsStarted, enrichVars, searchVars, embedVars,
                   splitVars, cleanVars, whisperVars, batchVars, pageVars, overlapVars>>

\* for (const chunk of chunks): cleanedChunks.push(content || chunk)
LlmCleanChunk ==
    /\ lpc = "clean"
    /\ Len(lrun.cleanedChunks) < Len(lrun.chunks)
    /\ LET chunk == lrun.chunks[Len(lrun.cleanedChunks) + 1] IN
       \E content \in ModelContents(chunk) :
          lrun' = [lrun EXCEPT !.cleanedChunks =
                                  Append(@, IF content # <<>> THEN content ELSE chunk)]
    /\ UNCHANGED lpc
    /\ UNCHANGED <<storeVars, ingestVars, runsStarted, enrichVars, searchVars, embedVars,
                   splitVars, cleanVars, whisperVars, batchVars, pageVars, overlapVars>>

\* return cleanedChunks.join('\n\n')
LlmReturn ==
    /\ lpc = "clean"
    /\ Len(lrun.cleanedChunks) = Len(lrun.chunks)
    /\ lrun' = [lrun EXCEPT !.result = JoinChunks(lrun.cleanedChunks)]
    /\ lpc' = "done"
    /\ UNCHANGED <<storeVars, ingestVars, runsStarted, enrichVars, searchVars, embedVars,
                   splitVars, cleanVars, whisperVars, batchVars, pageVars, overlapVars>>

(***************************************************************************)
(* Channel batch ingestion: the CLI channel mode (main) and the cron       *)
(* endpoint (GET), over the uploads playlist of the channel.               *)
(* Upload k is the k-th video published; its publish time is k.            *)
(***************************************************************************)
MaxUploads == 3          \* uploads the channel publishes
CliPageSize == 2         \* stands for maxResults: 50 of the CLI
CronPageSize == 1        \* stands for maxResults: 10 of the cron endpoint
MaxCeiling == 2          \* values of --limit

Uploads == 1..MaxUploads

\* start of the fixed lookback window (Date.now() - 7 days): every upload of the model
\* was published after it
LookbackStart == 0

\* publishedAfter: undefined
NoFilter == -1

\* the uploads playlist, newest first
Listing(n) == [i \in 1..n |-> n + 1 - i]

\* videos.filter(v => new Date(v.publishedAt) > publishedAfter)
RECURSIVE FilterAfter(_, _)
FilterAfter(list, publishedAfter) ==
    IF list = <<>> THEN <<>>
    ELSE (IF Head(list) > publishedAfter THEN <<Head(list)>> ELSE <<>>)
         \o FilterAfter(Tail(list), publishedAfter)

\* getChannelVideos(channelId, {maxResults, pageToken, publishedAfter}): one page of the
\* playlist, filtered by date after paging, and the token of the next page (0: none)
getChannelVideos(n, maxResults, pageToken, publishedAfter) ==
    LET last == Min(pageToken + maxResults - 1, n)
        items == SubSeq(Listing(n), pageToken, last)
    IN  [videos |-> IF publishedAfter = NoFilter THEN items
                    ELSE FilterAfter(items, publishedAfter),
         nextPageToken |-> IF last < n THEN last + 1 ELSE 0]

\* select published_at order by published_at desc limit 1: the latest stored publish
\* time, or the lookback start when the store is empty
LatestStored(cat) ==
    LET stored == {v \in Uploads : cat[v] # "absent"}
    IN  IF stored = {} THEN LookbackStart
        ELSE CHOOSE v \in stored : \A w \in stored : w <= v

\* what one per-video ingestion leaves in videos.status: a completed video is skipped;
\* otherwise the run completes, fails, stops with the row in processing, or writes
\* nothing (video not found upstream, rejected insert)
IngestOutcomes(status) ==
    IF status = "completed" THEN {"completed"}
    ELSE {status, "completed", "failed", "processing"}

IdleBatch ==
    [mode |-> "none", limit |-> 0, since |-> 0, total |-> 0, pageToken |-> 0,
     page |-> <<>>, processedCount |-> 0, visited |-> <<>>]

\* a new video is published on the channel, between batch runs
Publish ==
    /\ bpc \in {"idle", "done"}
    /\ published < MaxUploads
    /\ published' = published + 1
    /\ UNCHANGED <<bpc, brun, catalog>>
    /\ UNCHANGED <<storeVars, ingestVars, runsStarted, enrichVars, searchVars, embedVars,
                   libVars>>

\* main(), channel mode: pageToken undefined, processedCount = 0
BatchStart ==
    /\ bpc \in {"idle", "done"}
    /\ \E limit \in 0..MaxCeiling :
         brun' = [IdleBatch EXCEPT !.mode = "cli", !.limit = limit,
                                   !.since = LatestStored(catalog),
                                   !.total = published, !.pageToken = 1]
    /\ bpc' = "fetch"
    /\ UNCHANGED <<catalog, published>>
    /\ UNCHANGED <<storeVars, ingestVars, runsStarted, enrichVars, searchVars, embedVars,
                   libVars>>

\* do { result = await getChannelVideos(channelId, { maxResults: 50, pageToken })
BatchFetch ==
    /\ bpc = "fetch"
    /\ LET result == getChannelVideos(published, CliPageSize, brun.pageToken, NoFilter)
       IN  brun' = [brun EXCEPT !.page = result.videos,
                                !.pageToken = result.nextPageToken]
    /\ bpc' = "visit"
    /\ UNCHANGED <<catalog, published>>
    /\ UNCHANGED <<storeVars, ingestVars, runsStarted, enrichVars, searchVars, embedVars,
                   libVars>>

\* limit > 0 && processedCount >= limit
CeilingReached(limit, processedCount) == limit > 0 /\ processedCount >= limit

\* for (const video of result.videos): break at the ceiling, else ingestVideo and
\* processedCount++
BatchVisit ==
    /\ bpc = "visit"
    /\ brun.page # <<>>
    /\ IF CeilingReached(brun.limit, brun.processedCount)
       THEN /\ brun' = [brun EXCEPT !.page = <<>>]
            /\ UNCHANGED catalog
       ELSE LET video == Head(brun.page) IN
            \E status \in IngestOutcomes(catalog[video]) :
               /\ catalog' = [catalog EXCEPT ![video] = status]
               /\ brun' = [brun EXCEPT !.page = Tail(@),
                                       !.processedCount = @ + 1,
                                       !.visited = Append(@, video)]
    /\ UNCHANGED <<bpc, published>>
    /\ UNCHANGED <<storeVars, ingestVars, runsStarted, enrichVars, searchVars, embedVars,
                   libVars>>

\* pageToken = result.nextPageToken; break at the ceiling; } while (pageToken)
BatchNextPage ==
    /\ bpc = "visit"
    /\ brun.page = <<>>
    /\ bpc' = IF CeilingReached(brun.limit, brun.processedCount) \/ brun.pageToken = 0
              THEN "done" ELSE "fetch"
    /\ UNCHANGED <<brun, catalog, published>>
    /\ UNCHANGED <<storeVars, ingestVars, runsStarted, enrichVars, searchVars, embedVars,
                   libVars>>

\* GET: checkSince from the latest stored video, then the first page of the listing
\* filtered by publishedAfter: checkSince
CronStart ==
    /\ bpc \in {"idle", "done"}
    /\ LET checkSince == LatestStored(catalog)
           result == getChannelVideos(published, CronPageSize, 1, checkSince)
       IN  brun' = [IdleBatch EXCEPT !.mode = "cron", !.since = checkSince,
                                     !.total = published, !.page = result.videos]
    /\ bpc' = "cron"
    /\ UNCHANGED <<catalog, published>>
    /\ UNCHANGED <<storeVars, ingestVars, runsStarted, enrichVars, searchVars, embedVars,
                   libVars>>

\* for (const ytVideo of videos): skip a completed video, else process it
CronVisit ==
    /\ bpc = "cron"
    /\ brun.page # <<>>
    /\ LET video == Head(brun.page) IN
       \E status \in IngestOutcomes(catalog[video]) :
          /\ catalog' = [catalog EXCEPT ![video] = status]
          /\ brun' = [brun EXCEPT !.page = Tail(@), !.visited = Append(@, video)]
    /\ UNCHANGED <<bpc, published>>
    /\ UNCHANGED <<storeVars, ingestVars, runsStarted, enrichVars, searchVars, embedVars,
                   libVars>>

\* return NextResponse.json({ success: true, ... })
CronReturn ==
    /\ bpc = "cron"
    /\ brun.page = <<>>
    /\ bpc' = "done"
    /\ UNCHANGED <<brun, catalog, published>>
    /\ UNCHANGED <<storeVars, ingestVars, runsStarted, enrichVars, searchVars, embedVars,
                   libVars>>

\* transcript?.cleaned_text || transcript?.raw_text of the video's joined transcript
TextToChunk(tbl, v) ==
    LET rows == {i \in 1..Len(tbl) : tbl[i].video_id = v}
    IN  IF rows = {} THEN ""
        ELSE LET transcript == tbl[CHOOSE i \in rows : TRUE]
             IN  IF transcript.cleaned_text # "" THEN transcript.cleaned_text
                 ELSE transcript.raw_text

\* select id with count 'exact' on transcript_chunks where video_id = v
ChunkCount(tbl, v) == Cardinality({i \in 1..Len(tbl) : tbl[i].video_id = v})

\* if (count && count > 0) continue
IsProcessed(tbl, v, count) == count > 0

\* one element of chunkRecords; `content` is the chunk normalized.slice(start, end).trim()
\* of the text, kept as its bounds
ChunkRecord(v, text, span) ==
    [video_id |-> v, text |-> text, start |-> span.start, end |-> span.end]

IdleEmbed ==
    [todo |-> <<>>, text |-> "", chunks |-> <<>>, k |-> 0, chunkRecords |-> <<>>,
     requested |-> {}, succeeded |-> {},    \* chunks an embedding request was made / answered for
     countError |-> FALSE,                  \* `error` of the count response, never read
     texts |-> [v \in VideoIds |-> ""],     \* video.transcript of the rows selected at the start
     processedCount |-> 0, last |-> "none"]

\* the loop moves to the next video, or the script ends
EmbedNext(g, last, processed) ==
    [IdleEmbed EXCEPT !.todo = Tail(g.todo), !.last = last, !.texts = g.texts,
                      !.processedCount = g.processedCount + processed]

EmbedAdvance(g) == IF Len(g.todo) > 1 THEN "check" ELSE "idle"

\* select id, title, transcript from videos where status = 'completed' [and id = --video]
EmbedStart ==
    /\ gpc = "idle"
    /\ runsStarted < MaxRuns
    /\ runsStarted' = runsStarted + 1
    /\ \E videoIdArg \in VideoIds \cup {NULL}, storeUp \in BOOLEAN :
         LET matching == {v \in VideoIds : /\ videos[v] = "completed"
                                           /\ videoIdArg \in {NULL, v}}
         IN  \E todo \in {l \in [1..Cardinality(matching) -> matching] :
                            \A i, j \in DOMAIN l : i # j => l[i] # l[j]} :
               IF storeUp /\ Len(todo) > 0
               THEN /\ grun' = [IdleEmbed EXCEPT
                                   !.todo = todo,
                                   !.texts = [v \in VideoIds |-> TextToChunk(transcripts, v)]]
                    /\ gpc' = "check"
               ELSE /\ grun' = IdleEmbed
                    /\ gpc' = "idle"
    /\ UNCHANGED <<storeVars, ingestVars, enrichVars, searchVars, transcript_chunks, libVars, batchVars>>

\* the existence count, then the text and its chunks
EmbedCheck ==
    /\ gpc = "check"
    /\ \E storeUp \in BOOLEAN :
         LET video == Head(grun.todo)
             count == IF storeUp THEN ChunkCount(transcript_chunks, video) ELSE 0
             textToChunk == grun.texts[video]
         IN  IF IsProcessed(transcript_chunks, video, count)
             THEN /\ grun' = EmbedNext(grun, "skipped", 0)
                  /\ gpc' = EmbedAdvance(grun)
             ELSE IF textToChunk = ""
             THEN /\ grun' = EmbedNext(grun, "no text", 0)
                  /\ gpc' = EmbedAdvance(grun)
             ELSE LET chunks == SplitSpans(textToChunk) IN
                  IF Len(chunks) = 0
                  THEN /\ grun' = EmbedNext(grun, "nothing stored", 0)
                       /\ gpc' = EmbedAdvance(grun)
                  ELSE /\ grun' = [grun EXCEPT !.text = textToChunk, !.chunks = chunks,
                                               !.k = 1, !.chunkRecords = <<>>,
                                               !.countError = ~storeUp,
                                               !.last = "none"]
                       /\ gpc' = "embed"
    /\ UNCHANGED <<storeVars, ingestVars, runsStarted, enrichVars, searchVars,
                   transcript_chunks, libVars, batchVars>>

\* mutant: the try/catch is around the loop, a failed request ends it
ChunkLoopContinues_StopOnFailure(embedded) == embedded

\* for (const chunkContent of chunks) { try { ... } catch (e) { console.error } }:
\* the catch is inside the loop body, the loop goes on after a failed request
ChunkLoopContinues(embedded) == TRUE

\* generateEmbedding(chunkContent) inside try/catch: a failed request drops the chunk
EmbedChunk ==
    /\ gpc = "embed"
    /\ \E embedded \in BOOLEAN :
         LET video == Head(grun.todo)
             chunkRecords == IF embedded
                             THEN Append(grun.chunkRecords,
                                         ChunkRecord(video, grun.text, grun.chunks[grun.k]))
                             ELSE grun.chunkRecords
             requested == grun.requested \cup {grun.k}
             succeeded == IF embedded THEN grun.succeeded \cup {grun.k} ELSE grun.succeeded
         IN  IF grun.k < Len(grun.chunks) /\ ChunkLoopContinues(embedded)
             THEN /\ grun' = [grun EXCEPT !.k = @ + 1, !.chunkRecords = chunkRecords,
                                          !.requested = requested, !.succeeded = succeeded]
                  /\ gpc' = "embed"
             ELSE IF Len(chunkRecords) > 0
             THEN /\ grun' = [grun EXCEPT !.chunkRecords = chunkRecords,
                                          !.requested = requested, !.succeeded = succeeded]
                  /\ gpc' = "insert"
             ELSE /\ grun' = EmbedNext(grun, "nothing stored", 0)
                  /\ gpc' = EmbedAdvance(grun)
    /\ UNCHANGED <<storeVars, ingestVars, runsStarted, enrichVars, searchVars,
                   transcript_chunks, libVars, batchVars>>

\* transcript_chunks.insert(chunkRecords): one request, all rows or none
InsertChunks ==
    /\ gpc = "insert"
    /\ \E storeUp \in BOOLEAN :
         IF storeUp
         THEN /\ transcript_chunks' = transcript_chunks \o grun.chunkRecords
              /\ grun' = EmbedNext(grun, "saved", 1)
         ELSE /\ transcript_chunks' = transcript_chunks
              /\ grun' = EmbedNext(grun, "insert failed", 0)
    /\ gpc' = EmbedAdvance(grun)
    /\ UNCHANGED <<storeVars, ingestVars, runsStarted, enrichVars, searchVars, libVars, batchVars>>

(***************************************************************************)
(* A second run of the embedding script, started while the first one is    *)
(* running: its pass over one video                                        *)
(***************************************************************************)
IdleOverlap == [video |-> NULL, text |-> "", chunkRecords |-> <<>>, countError |-> FALSE]

\* the chunkRecords of the chunks whose embedding request succeeded, in order
RECURSIVE EmbeddedRecords(_, _, _, _, _)
EmbeddedRecords(v, text, chunks, succeeded, k) ==
    IF k > Len(chunks) THEN <<>>
    ELSE (IF k \in succeeded THEN <<ChunkRecord(v, text, chunks[k])>> ELSE <<>>)
         \o EmbeddedRecords(v, text, chunks, succeeded, k + 1)

\* the existence count, the text, its chunks and their embeddings, for one video
OverlapCheck ==
    /\ opc = "idle"
    /\ gpc # "idle"
    /\ runsStarted < MaxRuns
    /\ runsStarted' = runsStarted + 1
    /\ \E video \in {v \in VideoIds : videos[v] = "completed"}, storeUp \in BOOLEAN :
         LET count == IF storeUp THEN ChunkCount(transcript_chunks, video) ELSE 0
             textToChunk == TextToChunk(transcripts, video)
             chunks == IF textToChunk = "" THEN <<>> ELSE SplitSpans(textToChunk)
         IN  IF IsProcessed(transcript_chunks, video, count) \/ Len(chunks) = 0
             THEN /\ orun' = [IdleOverlap EXCEPT !.video = video]
                  /\ opc' = "idle"
             ELSE \E succeeded \in SUBSET (1..Len(chunks)) :
                    /\ orun' = [video |-> video, text |-> textToChunk,
                                chunkRecords |->
                                    EmbeddedRecords(video, textToChunk, chunks, succeeded, 1),
                                countError |-> ~storeUp]
                    /\ opc' = IF succeeded # {} THEN "insert" ELSE "idle"
    /\ UNCHANGED <<storeVars, ingestVars, enrichVars, searchVars, embedVars,
                   splitVars, cleanVars, whisperVars, batchVars, pageVars, llmVars>>

\* transcript_chunks.insert(chunkRecords) of the second run
OverlapInsert ==
    /\ opc = "insert"
    /\ \E storeUp \in BOOLEAN :
         transcript_chunks' = IF storeUp THEN transcript_chunks \o orun.chunkRecords
                              ELSE transcript_chunks
    /\ opc' = "idle"
    /\ UNCHANGED <<storeVars, ingestVars, runsStarted, enrichVars, searchVars, gpc, grun,
                   orun, splitVars, cleanVars, whisperVars, batchVars, pageVars, llmVars>>

(***************************************************************************)
(* Specification: overlapping ingestVideo runs and the enrichment script   *)
(* over an initially empty store                                           *)
(***************************************************************************)
Init ==
    /\ videos = [v \in VideoIds |-> "absent"]
    /\ transcripts = <<>>
    /\ tags = <<>>
    /\ video_tags = <<>>   \* the function with empty domain
    /\ ingestion_logs = {}
    /\ pc = [p \in Procs |-> "idle"]
    /\ run = [p \in Procs |-> IdleRun]
    /\ runsStarted = 0
    /\ epc = "idle"
    /\ erun = IdleEnrich
    /\ spc = "idle"
    /\ srun = IdleSearch
    /\ transcript_chunks = <<>>
    /\ gpc = "idle"
    /\ grun = IdleEmbed
    /\ splitPc = "idle"
    /\ splitRun = IdleSplit
    /\ cleanPc = "idle"
    /\ cleanRun = IdleClean
    /\ wpc = "idle"
    /\ wrun = IdleWhisper
    /\ files = {}
    /\ bpc = "idle"
    /\ brun = IdleBatch
    /\ catalog = [v \in Uploads |-> "absent"]
    /\ published = 0
    /\ kpc = "idle"
    /\ krun = IdlePaging
    /\ lpc = "idle"
    /\ lrun = IdleLlm
    /\ opc = "idle"
    /\ orun = IdleOverlap

Ingest(p) ==
        \/ Start(p)
        \/ CheckExisting(p)
        \/ MarkProcessing(p)
        \/ FetchTranscript(p)
        \/ Whisper(p)
        \/ AcquireFailed(p)
        \/ Enrich(p)
        \/ SaveTranscript(p)
        \/ UpsertTag(p)
        \/ LinkTag(p)
        \/ MarkCompleted(p)
        \/ CatchError(p)

Enricher ==
    \/ EnrichStart
    \/ EnrichProcess
    \/ EnrichUpdate
    \/ EnrichUpsertTag
    \/ EnrichLinkTag

Next == (\E p \in Procs : Ingest(p)) \/ Enricher

Spec == Init /\ [][Next]_vars

(***************************************************************************)
(* Specification: ingestVideo runs one after the other, any of which may   *)
(* be stopped before its final status write                                *)
(***************************************************************************)
Sequential == {"A"}

Retry == \E p \in Sequential : Ingest(p) \/ Abort(p)

SpecRetry == Init /\ [][Retry]_vars

(***************************************************************************)
(* Specification: channel batch runs, CLI and cron, one after the other,   *)
(* while the channel publishes                                             *)
(***************************************************************************)
Cron ==
    \/ CronStart
    \/ CronVisit
    \/ CronReturn

Batch ==
    \/ Publish
    \/ BatchStart
    \/ BatchFetch
    \/ BatchVisit
    \/ BatchNextPage
    \/ Cron

SpecBatch == Init /\ [][Batch]_vars

(***************************************************************************)
(* Specification: clients paging through the lexical search               *)
(***************************************************************************)
Paging ==
    \/ PagingStart
    \/ PageRequest

SpecPaging == Init /\ [][Paging]_vars

(***************************************************************************)
(* Specification: the cron endpoint invoked again and again while the      *)
(* channel publishes; a started or startable cron run always proceeds      *)
(***************************************************************************)
CronSchedule ==
    \/ Publish
    \/ Cron

SpecCron == Init /\ [][CronSchedule]_vars /\ WF_vars(Cron)

(***************************************************************************)
(* Specification: calls of hybridSearch; the store is read only, its       *)
(* answers range over every list of completed videos                       *)
(***************************************************************************)
Search ==
    \/ SearchStart
    \/ SemanticStrategy
    \/ KeywordStrategy
    \/ TagStrategy
    \/ FetchAndMerge

SpecSearch == Init /\ [][Search]_vars

(***************************************************************************)
(* Specification: runs of the embedding script over the stores ingestion   *)
(* leaves behind                                                           *)
(***************************************************************************)
\* the Transcript row ingestion wrote for v: captions or whisper text, enriched or
\* (skipped or failed enrichment) with the raw text as cleaned text
IngestedTranscripts(v) ==
    {[video_id |-> v, raw_text |-> raw, cleaned_text |-> cleanTranscript(raw),
      summary |-> "summary", source |-> fetchTranscript("segments").source,
      processing_status |-> "completed"] : raw \in {CaptionText}}
    \cup
    {[video_id |-> v, raw_text |-> CaptionText, cleaned_text |-> CaptionText,
      summary |-> NULL, source |-> "extractor", processing_status |-> "completed"],
     [video_id |-> v, raw_text |-> WhisperText, cleaned_text |-> cleanTranscript(WhisperText),
      summary |-> "summary", source |-> "whisper", processing_status |-> "completed"]}

\* a video is absent, or completed with its Transcript row, or completed after a
\* transcript write the store rejected
InitEmbed ==
    /\ videos \in [VideoIds -> {"absent", "completed"}]
    /\ \E rows \in [VideoIds -> UNION {IngestedTranscripts(v) : v \in VideoIds}],
          kept \in SUBSET VideoIds :
         /\ \A v \in VideoIds : rows[v].video_id = v
         /\ \A v \in kept : videos[v] = "completed"
         /\ transcripts = SelectSeq(<<rows["v1"], rows["v2"]>>,
                                    LAMBDA row : row.video_id \in kept)
    /\ tags = <<>>
    /\ video_tags = <<>>
    /\ ingestion_logs = {}
    /\ pc = [p \in Procs |-> "idle"]
    /\ run = [p \in Procs |-> IdleRun]
    /\ runsStarted = 0
    /\ epc = "idle"
    /\ erun = IdleEnrich
    /\ spc = "idle"
    /\ srun = IdleSearch
    /\ transcript_chunks = <<>>
    /\ gpc = "idle"
    /\ grun = IdleEmbed
    /\ splitPc = "idle"
    /\ splitRun = IdleSplit
    /\ cleanPc = "idle"
    /\ cleanRun = IdleClean
    /\ wpc = "idle"
    /\ wrun = IdleWhisper
    /\ files = {}
    /\ bpc = "idle"
    /\ brun = IdleBatch
    /\ catalog = [v \in Uploads |-> "absent"]
    /\ published = 0
    /\ kpc = "idle"
    /\ krun = IdlePaging
    /\ lpc = "idle"
    /\ lrun = IdleLlm
    /\ opc = "idle"
    /\ orun = IdleOverlap

Embedder ==
    \/ EmbedStart
    \/ EmbedCheck
    \/ EmbedChunk
    \/ InsertChunks

SpecEmbed == InitEmbed /\ [][Embedder]_vars

(***************************************************************************)
(* Specification: two runs of the embedding script that overlap in time    *)
(***************************************************************************)
Overlap ==
    \/ OverlapCheck
    \/ OverlapInsert

SpecOverlap == InitEmbed /\ [][Embedder \/ Overlap]_vars

(***************************************************************************)
(* Specification: the enrichment script and the embedding script over the  *)
(* stores ingestion leaves behind                                          *)
(***************************************************************************)
SpecReembed == InitEmbed /\ [][Enricher \/ Embedder]_vars

(***************************************************************************)
(* Specification: calls of cleanTranscript                                 *)
(***************************************************************************)
LlmCleaner ==
    \/ LlmSplit
    \/ LlmCleanChunk
    \/ LlmReturn

SpecLlm == Init /\ [][LlmCleaner]_vars

(***************************************************************************)
(* Specification: calls of splitText on the input texts                    *)
(***************************************************************************)
Splitter ==
    \/ SplitCall
    \/ SplitIterate
    \/ SplitReturn

SpecSplit == Init /\ [][Splitter]_vars

(***************************************************************************)
(* Specification: cleanTranscriptText applied to a text and to its result  *)
(***************************************************************************)
Cleaner ==
    \/ CleanCall
    \/ CleanAgain

SpecClean == Init /\ [][Cleaner]_vars

(***************************************************************************)
(* Specification: transcribeWithWhisper called again and again             *)
(***************************************************************************)
Transcriber ==
    \/ WhisperCall
    \/ WhisperToolchain
    \/ WhisperDownload
    \/ WhisperExists
    \/ WhisperSize
    \/ WhisperTranscribe
    \/ WhisperCatch

SpecWhisper == Init /\ [][Transcriber]_vars


(***************************************************************************)
(* Properties of ingestVideo                                               *)
(***************************************************************************)
Active(p) == pc[p] \notin {"idle", "done"}

\* the step of run p that leaves position `at`
Leaves(p, at) == pc[p] = at /\ pc'[p] # at

AllowedTransitions ==
    {<<"absent", "processing">>, <<"pending", "processing">>, <<"processing", "completed">>,
     <<"processing", "failed">>, <<"failed", "processing">>}

C2_StatusTransitions ==
    [][\A v \in VideoIds :
         videos'[v] # videos[v] => <<videos[v], videos'[v]>> \in AllowedTransitions]_vars

\* C3: a Video at status `completed` has a Transcript row with processing_status
\* `completed` holding an acquired raw text, whatever the store answered to the
\* transcript write.
C3_CompletedHasTranscript ==
    \A v \in VideoIds :
        videos[v] = "completed" =>
            \E row \in TranscriptOf(v) :
                /\ row.processing_status = "completed"
                /\ row.raw_text \in {CaptionText, WhisperText}

BothFailed(p) ==
    /\ Active(p)
    /\ run[p].primary = "nothing"
    /\ run[p].whisperCalled
    /\ run[p].transcriptResult = NoResult

C5_AcquisitionFailureStops ==
    /\ [](\A p \in Procs :
            BothFailed(p) =>
                /\ pc[p] = "nofound"
                /\ ~run[p].llmCalled
                /\ run[p].saved = "none"
                /\ run[p].writes \subseteq {"videos", "ingestion_logs"})
    /\ [][\A p \in Procs :
            (BothFailed(p) /\ pc'[p] # pc[p]) =>
                /\ pc'[p] = "done"
                /\ run'[p].ret = "failed"
                /\ run'[p].writes \subseteq {"videos", "ingestion_logs"}
                /\ videos'[run[p].video] = "failed"
                /\ LogRow(run[p], "fetch_transcript", "failed") \in ingestion_logs'
                /\ UNCHANGED <<transcripts, tags, video_tags>>]_vars

C5_Witness ==
    \E p \in Procs :
        /\ pc[p] = "done"
        /\ run[p].ret = "failed"
        /\ videos[run[p].video] = "failed"
        /\ LogRow(run[p], "fetch_transcript", "failed") \in ingestion_logs
        /\ TranscriptOf(run[p].video) = {}

C9_TagUpsertIdempotent ==
    /\ \A i, j \in 1..Len(tags) :
          i # j => toLowerCase(tags[i].name) # toLowerCase(tags[j].name)
    /\ \A k \in DOMAIN video_tags : video_tags[k] = 1
    /\ \A p \in Procs : ~run[p].tagError
    /\ ~erun.tagError

\* the same tag linked to two videos, by an ingestion run and by the enrichment script
C9_Witness ==
    /\ \E k1, k2 \in DOMAIN video_tags : k1[1] # k2[1] /\ k1[2] = k2[2]
    /\ Len(tags) = 1
    /\ runsStarted = MaxRuns

(***************************************************************************)
(* Properties of hybridSearch                                              *)
(***************************************************************************)
\* the positions of a list that hold the first occurrence of their video
FirstOccurrences(list) ==
    {i \in 1..Len(list) : \A j \in 1..(i - 1) : list[j] # list[i]}

\* C6: hybridSearch returns exactly the first `limit` elements of the concatenation
\* tag results, semantic results, lexical results with every later occurrence of an
\* already seen video removed: the k-th returned video is the k-th first occurrence
\* of the concatenation. Hence no video is returned twice, and a video that is both a
\* tag and a semantic result stands at its position in the tag results.
C6_MergeOrderDedupLimit ==
    (spc = "done" /\ srun.outcome = "returned") =>
        LET all == srun.tagResults \o srun.semanticVideos \o srun.keywordResults
            firsts == FirstOccurrences(all)
            result == srun.result
        IN  /\ Len(result) = Min(srun.limit, Cardinality(firsts))
            /\ \A k \in 1..Len(result) :
                 \E i \in firsts :
                    /\ Cardinality({j \in firsts : j <= i}) = k
                    /\ result[k] = all[i]
            /\ NoDuplicates(result)
            /\ \A i \in 1..Len(srun.tagResults) :
                 (srun.tagResults[i] \in Range(srun.semanticVideos) /\ i <= srun.limit)
                    => /\ result[i] = srun.tagResults[i]
                       /\ Cardinality({k \in 1..Len(result) :
                                         result[k] = srun.tagResults[i]}) = 1

\* a search returned in which a video is both a tag and a semantic result, the lexical
\* results repeat a video, and the merged list was cut at `limit`
C6_Witness ==
    /\ spc = "done"
    /\ srun.outcome = "returned"
    /\ Range(srun.tagResults) \cap Range(srun.semanticVideos) # {}
    /\ Range(srun.keywordResults) \cap Range(srun.semanticVideos) # {}
    /\ Cardinality(Range(srun.tagResults) \cup Range(srun.semanticVideos)
                   \cup Range(srun.keywordResults)) > srun.limit
    /\ Len(srun.result) = srun.limit
    /\ srun.limit > 1

\* what strategy s contributed to the merge
Contribution(s) ==
    CASE s = "tag" -> srun.tagResults
      [] s = "semantic" -> srun.semanticVideos
      [] OTHER -> srun.keywordResults

\* C7: a strategy (tag, semantic, lexical) whose requests errored contributes the
\* empty list, and the call still returns, never rejects, with the merge of what the
\* three strategies contributed.
C7_StrategyErrorIsEmpty ==
    (spc = "done") =>
        /\ srun.outcome = "returned"
        /\ \A s \in srun.errored : Contribution(s) = <<>>
        /\ srun.result = MergeResults(srun.tagResults, srun.semanticVideos,
                                      srun.keywordResults, srun.limit)
        /\ \A v \in Range(srun.tagResults) \cup Range(srun.semanticVideos)
                     \cup Range(srun.keywordResults) :
               (v \in Range(srun.result)) \/ Len(srun.result) = srun.limit

\* a search returned the results of another strategy although the semantic strategy
\* errored
C7_Witness ==
    /\ spc = "done"
    /\ "semantic" \in srun.errored
    /\ srun.errored # {"semantic"}
    /\ srun.outcome = "returned"
    /\ srun.result # <<>>

(***************************************************************************)
(* Properties of generateEmbeddings                                        *)
(***************************************************************************)
\* the chunks of the video's text that have no transcript_chunks row
MissingChunks(v) ==
    LET text == TextToChunk(transcripts, v)
        spans == SplitSpans(text)
    IN  {k \in 1..Len(spans) :
            ~\E i \in 1..Len(transcript_chunks) :
                transcript_chunks[i] = ChunkRecord(v, text, spans[k])}

\* C10: the chunk rows of a video are all-or-nothing: an embedding run never skips a
\* video as already processed while a chunk of its text has no stored row (as after a
\* run in which the embedding request of some chunk failed).
C10_ChunksAllOrNothing ==
    [][(gpc = "check" /\ grun'.last = "skipped" /\ grun' # grun)
          => MissingChunks(Head(grun.todo)) = {}]_vars

\* C11: a video that already has a TranscriptChunk row gets no embedding request and
\* no chunk insert from an embedding run, its rows stay as they are, and running the
\* script twice in sequence stores each chunk of the video once.
C11_ExistingChunksSkipped ==
    /\ (gpc \in {"embed", "insert"}) => ChunkCount(transcript_chunks, Head(grun.todo)) = 0
    /\ NoDuplicates(transcript_chunks)

\* the chunk records of the current video whose request succeeded, in chunk order
RECURSIVE SucceededRecords(_, _)
SucceededRecords(g, k) ==
    IF k > Len(g.chunks) THEN <<>>
    ELSE (IF k \in g.succeeded
          THEN <<ChunkRecord(Head(g.todo), g.text, g.chunks[k])>>
          ELSE <<>>) \o SucceededRecords(g, k + 1)

\* C12: in the turn of one video every chunk gets its embedding request, whether or
\* not an earlier request failed; the rows handed to the insert, and stored when the
\* store accepts it, are exactly the chunks whose request succeeded; the video is
\* counted as processed only by a step that stored at least one row; a video without
\* text ends its turn with no row stored and the script going on.
C12_ChunkFailureIsolated ==
    /\ [](gpc = "insert" =>
            /\ grun.requested = 1..Len(grun.chunks)
            /\ grun.chunkRecords = SucceededRecords(grun, 1)
            /\ grun.succeeded # {})
    /\ [][
           /\ (gpc = "insert" /\ grun'.last = "saved")
               => (transcript_chunks' = transcript_chunks \o SucceededRecords(grun, 1))
           /\ (gpc = "insert" /\ grun'.last # "saved")
               => (transcript_chunks' = transcript_chunks)
           /\ (gpc = "embed" /\ gpc' # "insert")
               => (transcript_chunks' = transcript_chunks)
           /\ (gpc = "embed" /\ gpc' \in {"check", "idle"})
               => (grun.requested \cup {grun.k} = 1..Len(grun.chunks)
                   /\ grun.succeeded = {}
                   /\ grun'.last = "nothing stored")
           /\ (gpc # "idle" /\ grun'.processedCount # grun.processedCount)
               => (/\ grun'.processedCount = grun.processedCount + 1
                   /\ Len(transcript_chunks') > Len(transcript_chunks))
           /\ (gpc = "check" /\ grun' # grun /\ TextToChunk(transcripts, Head(grun.todo)) = "")
               => (/\ grun'.last \in {"no text", "skipped"}
                   /\ transcript_chunks' = transcript_chunks
                   /\ gpc' \in {"check", "idle"}
                   /\ grun'.processedCount = grun.processedCount)
       ]_vars

\* the insert is about to store the chunks of a video of which an earlier chunk's
\* request failed and a later one succeeded
C12_Witness ==
    /\ gpc = "insert"
    /\ \E j, k \in grun.requested : j < k /\ j \notin grun.succeeded /\ k \in grun.succeeded
    /\ Len(transcript_chunks) > 0
    /\ \E v \in VideoIds : videos[v] = "completed" /\ TextToChunk(transcripts, v) = ""

(***************************************************************************)
(* Properties of splitText                                                 *)
(***************************************************************************)
\* C13: splitText terminates on every input: each iteration of its loop runs with the
\* cursor before the end of the normalized text and moves the cursor forward; empty
\* input returns the empty sequence; every chunk is at most chunkSize + lookahead
\* (1000 + 50) characters long.
C13_SplitTerminatesBounded ==
    /\ [](/\ \A k \in 1..Len(splitRun.chunks) :
               Len(splitRun.chunks[k]) <= CHUNK_SIZE + Lookahead
          /\ (splitPc = "done" /\ splitRun.text.len = 0) => splitRun.chunks = <<>>
          /\ CHUNK_OVERLAP < CHUNK_SIZE)
    /\ [][(splitPc = "loop" /\ splitRun' # splitRun)
             => /\ splitRun.start < Len(splitRun.normalized)
                /\ splitRun'.start > splitRun.start
                /\ Len(splitRun'.chunks) = Len(splitRun.chunks) + 1]_vars

\* splitText returned several chunks, one of them cut at a sentence boundary beyond
\* the chunk size
C13_Witness ==
    /\ splitPc = "done"
    /\ Len(splitRun.chunks) >= 3
    /\ \E k \in 1..Len(splitRun.chunks) : Len(splitRun.chunks[k]) > CHUNK_SIZE

\* the chunks joined, each but the first without its first `overlap` characters
RECURSIVE Reconstruct(_, _)
Reconstruct(chunks, k) ==
    IF k > Len(chunks) THEN <<>>
    ELSE (IF k = 1 THEN chunks[k] ELSE SubSeq(chunks[k], CHUNK_OVERLAP + 1, Len(chunks[k])))
         \o Reconstruct(chunks, k + 1)

\* C14: the chunks splitText returns, joined after dropping the first `overlap`
\* characters of every chunk but the first, are the whitespace-normalized text; each
\* chunk after the first begins with the last `overlap` characters of its predecessor.
C14_SplitReconstructs ==
    (splitPc = "done") =>
        /\ Reconstruct(splitRun.chunks, 1) = splitRun.normalized
        /\ \A k \in 2..Len(splitRun.chunks) :
             LET prev == splitRun.chunks[k - 1] IN
             /\ Len(prev) >= CHUNK_OVERLAP
             /\ Len(splitRun.chunks[k]) >= CHUNK_OVERLAP
             /\ SubSeq(splitRun.chunks[k], 1, CHUNK_OVERLAP)
                  = SubSeq(prev, Len(prev) - CHUNK_OVERLAP + 1, Len(prev))

(***************************************************************************)
(* Properties of cleanTranscriptText                                       *)
(***************************************************************************)
\* C15: for every text and option set, cleanTranscriptText applied to its own result
\* returns that result: the second normalization changes nothing.
C15_CleanIdempotent ==
    (cleanPc = "twice") => cleanRun.result = cleanRun.first

C17_NoScratchFileRemains ==
    (wpc = "done") => ~\E f \in files : f.video = wrun.videoId

(***************************************************************************)
(* Properties of ingestVideo: the log trail, overlapping runs              *)
(***************************************************************************)
\* C18: every step of a run (acquisition, enrichment, transcript write, tag linking,
\* completion) writes an ingestion_logs entry for its video before the next step starts,
\* and no entry of ingestion_logs is ever changed or removed.
C18_EveryStepLogged ==
    /\ [][ingestion_logs \subseteq ingestion_logs']_vars
    /\ [][\A p \in Procs :
            /\ Leaves(p, "nofound") =>
                  LogRow(run[p], "fetch_transcript", "failed") \in ingestion_logs'
            /\ Leaves(p, "enrich") =>
                  /\ LogRow(run[p], "fetch_transcript", "completed") \in ingestion_logs'
                  /\ run'[p].llmCalled =>
                        \E status \in {"completed", "failed"} :
                            LogRow(run[p], "llm_processing", status) \in ingestion_logs'
            /\ (Leaves(p, "save") \/ Leaves(p, "link")) =>
                  run'[p].nlog = run[p].nlog + 1
            /\ (Leaves(p, "complete") /\ run'[p].ret = "success") =>
                  \E row \in ingestion_logs' \ ingestion_logs :
                      row.video_id = run[p].video]_vars

\* C19: no ingestVideo run ends with a thrown store error, and the store holds at most
\* one transcripts row per video and exactly one when two runs on the same video have
\* both returned success.
C19_ConcurrentRunsAbsorbed ==
    /\ \A p \in Procs : run[p].ret # "threw"
    /\ \A v \in VideoIds :
          Cardinality({i \in 1..Len(transcripts) : transcripts[i].video_id = v}) <= 1
    /\ \A p, q \in Procs :
          (/\ p # q
           /\ pc[p] = "done" /\ pc[q] = "done"
           /\ run[p].video = run[q].video
           /\ run[p].ret = "success" /\ run[q].ret = "success")
          => /\ videos[run[p].video] # "absent"
             /\ Cardinality({i \in 1..Len(transcripts) :
                               transcripts[i].video_id = run[p].video}) = 1

\* a run returns: it reaches "done" otherwise than by being stopped
Returns(p) == pc[p] # "done" /\ pc'[p] = "done" /\ run'[p].ret # "aborted"

\* the run has found the Video row at status `processing`
FoundProcessing(p) ==
    \/ pc[p] = "check" /\ videos[run[p].video] = "processing"
    \/ pc[p] \in AbortPoints \cup {"mark"} /\ run[p].existing = "processing"

\* C20: a run stopped between the write of status `processing` and its final status
\* write changes no table and leaves the row in `processing`; a later run that finds the
\* row in `processing` does not skip it, and when it returns the row is at status
\* `completed` or `failed`.
C20_AbortedRunRetryable ==
    /\ [](\A p \in Sequential :
            (pc[p] = "done" /\ run[p].ret = "aborted") =>
                videos[run[p].video] = "processing")
    /\ [][\A p \in Sequential :
            /\ (run'[p].ret = "aborted" /\ run[p].ret # "aborted") =>
                  UNCHANGED storeVars
            /\ (Returns(p) /\ FoundProcessing(p)) =>
                  /\ run'[p].ret \in {"success", "failed"}
                  /\ videos'[run[p].video] \in {"completed", "failed"}]_vars

\* C21: every video whose acquisition has begun (a run has logged
\* fetch_transcript/started for it) and on which no run is at work has a transcripts row,
\* whatever its status.
C21_AcquiredVideoHasTranscript ==
    \A v \in VideoIds :
        (/\ [video_id |-> v, step |-> "fetch_transcript", status |-> "started"]
                \in ingestion_logs
         /\ \A p \in Procs : Active(p) => run[p].video # v)
        => TranscriptOf(v) # {}

\* C22: the tag list a run derives from the tagging response holds strings only (a
\* response that is no well-formed list of strings gives the empty list), and no run
\* reaches its catch block from the tag loop.
C22_MalformedTagsDegrade ==
    /\ [](\A p \in Procs :
            Active(p) =>
                \A k \in 1..Len(run[p].tags) : run[p].tags[k].type = "string")
    /\ [][\A p \in Procs : Leaves(p, "tag") => pc'[p] # "catch"]_vars

(***************************************************************************)
(* Properties of the channel batch runs                                    *)
(***************************************************************************)
\* the videos a finished run has handed to per-video ingestion
Visited == {brun.visited[i] : i \in 1..Len(brun.visited)}

\* the uploads published after the latest stored publish time (or within the lookback
\* window), at the start of the run
PublishedSince == {v \in 1..brun.total : v > brun.since}

\* C23: a finished batch run has handed to ingestion only videos published after the
\* latest publish time in the store at its start, at most N of them under a ceiling
\* N > 0, and all of them when the ceiling was not reached.
C23_BatchVisitsNewVideos ==
    (bpc = "done") =>
        /\ Visited \subseteq PublishedSince
        /\ brun.limit > 0 => Len(brun.visited) <= brun.limit
        /\ (brun.limit = 0 \/ Len(brun.visited) < brun.limit) => Visited = PublishedSince

\* the cron run is about to process video v
Attempting(v) == bpc = "cron" /\ brun.page # <<>> /\ Head(brun.page) = v

\* C29: under repeated cron runs, every video published on the channel and not yet
\* completed in the store (absent, failed or left in processing) is eventually
\* attempted by a cron run; the claim's completion of such a video rests on this.
C29_EveryUploadEventuallyAttempted ==
    \A v \in Uploads :
        [](published >= v /\ catalog[v] # "completed" => <>Attempting(v))

(***************************************************************************)
(* Properties of searchVideos and of paging through it                     *)
(***************************************************************************)
\* position of video v in a duplicate-free list
Pos(list, v) == CHOOSE i \in 1..Len(list) : list[i] = v

\* list r keeps the relative order of the rows of `answer`
KeepsOrderOf(r, answer) ==
    \A i, j \in 1..Len(r) :
        (i < j /\ r[i] \in Range(answer) /\ r[j] \in Range(answer))
            => Pos(answer, r[i]) < Pos(answer, r[j])

\* C24: every page searchVideos returns lists its videos in the order the store gave
\* them: two videos the store answered in the same query keep the store's order.
C24_StoreRelevanceOrder ==
    \A n \in 1..Len(krun.pages) :
        /\ KeepsOrderOf(krun.pages[n], krun.transcriptMatches)
        /\ KeepsOrderOf(krun.pages[n], krun.videoMatches)

\* the videos received over all pages, in order
RECURSIVE Concat(_)
Concat(pages) == IF pages = <<>> THEN <<>> ELSE Head(pages) \o Concat(Tail(pages))

\* C30: once paging with offsets 0, limit, 2*limit, ... has ended and no request failed,
\* the pages together hold every matching completed video, each exactly once.
C30_PagingEnumeratesMatches ==
    (kpc = "done" /\ ~krun.errored) =>
        /\ NoDuplicates(Concat(krun.pages))
        /\ Range(Concat(krun.pages)) =
              Range(krun.videoMatches) \cup Range(krun.transcriptMatches)

\* C25: when a run of ingestVideo saves its transcript for a video that already has a
\* Transcript row, the video afterwards has exactly one Transcript row, holding the
\* raw text, cleaned text, summary and source of this run.
C25_RerunUpdatesTranscriptInPlace ==
    [][\A p \in Procs :
          (/\ pc[p] = "save"
           /\ pc'[p] \in {"tag", "complete"}
           /\ TranscriptOf(run[p].video) # {})
          => TranscriptOf(run[p].video)' = {TranscriptPayload(run[p])}]_vars

(***************************************************************************)
(* Properties of cleanTranscript                                           *)
(***************************************************************************)
\* C26: for a raw text longer than the character ceiling, every chunk sent to the model
\* is non-empty and within the ceiling, the chunks in order concatenate to the raw
\* text, and the value returned is the concatenation of the cleaned chunks in order.
C26_ChunksCoverTextWithinCeiling ==
    (lpc = "done" /\ Len(lrun.rawText) > maxChunkLength) =>
        /\ \A k \in 1..Len(lrun.chunks) :
              /\ lrun.chunks[k] # <<>>
              /\ Len(lrun.chunks[k]) <= maxChunkLength
        /\ Concat(lrun.chunks) = lrun.rawText
        /\ lrun.result = Concat(lrun.cleanedChunks)

(***************************************************************************)
(* Properties of the enrichment and embedding scripts together             *)
(***************************************************************************)
\* C27: when the enrichment script has written a video's transcript, every
\* TranscriptChunk row of the video is a span of the video's current transcript text:
\* chunks of a replaced text have been deleted, not kept.
C27_ChunksOfCurrentText ==
    [][\A v \in VideoIds :
          (epc = "update" /\ epc' # "update" /\ Head(erun.todo).video_id = v)
          => \A i \in 1..Len(transcript_chunks') :
                 transcript_chunks'[i].video_id = v
                    => transcript_chunks'[i].text = TextToChunk(transcripts', v)]_vars

\* C28: when an embedding run that read a chunk count of zero for a video inserts the
\* video's chunks, overlapping runs included, no chunk has two TranscriptChunk rows
\* afterwards.
C28_OverlappingRunsStoreOnce ==
    [][(\/ gpc = "insert" /\ gpc' # "insert" /\ ~grun.countError
        \/ opc = "insert" /\ opc' # "insert" /\ ~orun.countError)
          => NoDuplicates(transcript_chunks')]_vars

====
